---- MODULE Spec2Model ----
(***************************************************************************)
(* Model of the gunbot-quant simulation core: the data window handed to a  *)
(* run (DataManager.get_data, _process_symbol, _get_start_index) and the   *)
(* three candle-by-candle state machines of backtest_engine.py             *)
(* (run_generic_backtest, run_legacy_backtest, run_continuous_backtest     *)
(* driving GridStrategy).                                                  *)
(*                                                                         *)
(* Money and quantities are exact rationals <<num, den>> (den > 0, lowest  *)
(* terms); Python list index i is TLA+ sequence index i + 1; a timestamp   *)
(* ts[i] is the candle index i (timestamps are strictly increasing).       *)
(***************************************************************************)
EXTENDS Integers, Sequences, FiniteSets, TLC

\* ------------------------------------------------------------------------
\* Bounds of the model
\* ------------------------------------------------------------------------
MaxLen == 3
MaxWarmup == 1

\* ------------------------------------------------------------------------
\* Exact rational arithmetic (the float64 arithmetic of the simulators)
\* ------------------------------------------------------------------------
None == "None"
\* Python's None where a number is expected (an index, a price, a time)
NIL == -1
\* The not-a-number marker of the indicator arrays; every comparison with it is false
NaN == -999
IsNaN(x) == x = NaN
Lt(a, b) == ~IsNaN(a) /\ ~IsNaN(b) /\ a < b
Gt(a, b) == ~IsNaN(a) /\ ~IsNaN(b) /\ a > b

Abs(x) == IF x < 0 THEN -x ELSE x

RECURSIVE Gcd(_, _)
Gcd(a, b) == IF b = 0 THEN a ELSE Gcd(b, a % b)

Norm(n, d) ==
    LET g == Gcd(Abs(n), Abs(d))
        s == IF d < 0 THEN -1 ELSE 1
    IN  <<(s * n) \div g, (s * d) \div g>>

R(k) == <<k, 1>>
RAdd(x, y) ==
    LET g == Gcd(x[2], y[2])
    IN  Norm(x[1] * (y[2] \div g) + y[1] * (x[2] \div g), (x[2] \div g) * y[2])
RNeg(x) == <<-x[1], x[2]>>
RSub(x, y) == RAdd(x, RNeg(y))
RMul(x, y) ==
    LET g1 == Gcd(Abs(x[1]), y[2])
        g2 == Gcd(Abs(y[1]), x[2])
    IN  Norm((x[1] \div g1) * (y[1] \div g2), (x[2] \div g2) * (y[2] \div g1))
RInv(x) == IF x[1] < 0 THEN <<-x[2], -x[1]>> ELSE <<x[2], x[1]>>
RDiv(x, y) == RMul(x, RInv(y))
RLt(x, y) ==
    LET g == Gcd(x[2], y[2])
    IN  x[1] * (y[2] \div g) < y[1] * (x[2] \div g)
RLe(x, y) == ~RLt(y, x)
RZero == R(0)

Max2(a, b) == IF b > a THEN b ELSE a
Min2(a, b) == IF b < a THEN b ELSE a

Last(s) == s[Len(s)]
\* Python indexing: a negative index counts from the end of the sequence.
PyIdx(s, k) == IF k < 0 THEN s[Len(s) + k + 1] ELSE s[k + 1]

\* ------------------------------------------------------------------------
\* Inputs
\* ------------------------------------------------------------------------
Modes == {"generic", "legacy", "grid"}
ClosePrices == {1, 2, 3}
Capitals == {12}
\* config.get('TECHNICAL_WARMUP_PERIOD', 200): the default when the key is absent
DefaultWarmup == 200

VARIABLES
    pc,            \* "start" | "loop" | "done"
    entry,         \* "batch" (_process_symbol) | "direct" (a runner called on a frame)
    mode,          \* which runner / state machine
    cfg,           \* the run's config: warmup, capital, data source
    close,         \* the frame's close column
    available_warmup,     \* candles the table holds before the start date (batch only)
    requested_start_idx,  \* index of the first candle at or after the start date
    start_index,   \* _get_start_index's result, None when it returned None
    i,             \* the index of the next candle of the loop
    cash,
    position,
    trades,
    equity_curve,
    sig,           \* what the strategy / the candle answered at the last processed candle
    buy_orders,    \* GridStrategy: the buy ladder (a set of price levels)
    sell_orders,   \* GridStrategy: the sell ladder
    base_asset_qty,
    best_params_memory,  \* DynamicMomentumOptimizer: ranked (fma, sma, atr, mult, score)
    outcome,       \* what the caller received
    call,          \* a function called on its own: its name and arguments
    ret            \* the value that call returned

vars == <<pc, entry, mode, cfg, close, available_warmup, requested_start_idx, start_index, i, cash, position, trades,
          equity_curve, sig, buy_orders, sell_orders, base_asset_qty,
          best_params_memory, outcome, call, ret>>

fnVars == <<call, ret>>
gridVars == <<buy_orders, sell_orders, base_asset_qty>>
modeVars == <<buy_orders, sell_orders, base_asset_qty, best_params_memory>>

\* ------------------------------------------------------------------------
\* The data window: DataManager.get_data and _get_start_index
\* ------------------------------------------------------------------------
NoCall == [fn |-> "none"]
NoOutcome == [kind |-> "none", required |-> NIL, available |-> NIL]
Outcome(k) == [kind |-> k, required |-> NIL, available |-> NIL]

\* get_data on a cached table of rawLen candles in which the start date falls
\* at start_iloc and the end date at end_iloc.
get_data(rawLen, start_iloc, end_iloc, warmup_candles, is_yfinance) ==
    LET warmup_start_iloc == Max2(0, start_iloc - warmup_candles)
        n == Max2(0, end_iloc - warmup_start_iloc)
    IN  IF rawLen = 0 THEN [kind |-> "empty"]
        ELSE IF (start_iloc - warmup_start_iloc) < warmup_candles /\ ~is_yfinance
             THEN [kind |-> "raise", required |-> warmup_candles,
                   available |-> start_iloc - warmup_start_iloc]
             ELSE IF n = 0 THEN [kind |-> "empty"]
                  ELSE [kind |-> "frame", n |-> n,
                        req |-> Min2(start_iloc - warmup_start_iloc, n)]

technical_warmup(c) == IF c.warmup = NIL THEN DefaultWarmup ELSE c.warmup

\* Variant: the requested index used without regard to the warmup
get_start_index_no_warmup(n, req, c) ==
    IF req >= n THEN NIL ELSE req
\* _get_start_index on a frame of n candles whose start date falls at index req.
get_start_index(n, req, c) ==
    LET start == Max2(technical_warmup(c), req)
    IN  IF start >= n THEN NIL ELSE start

\* ------------------------------------------------------------------------
\* Generic directional mode (run_generic_backtest)
\* ------------------------------------------------------------------------
FlatPosition ==
    [in_pos |-> FALSE, entry_price |-> 0, stop_price |-> 0, qty |-> RZero,
     value |-> RZero, entry_time |-> NIL]

NoSig == [entry |-> FALSE, stop |-> NIL, tp |-> NIL, line |-> NIL, exit |-> None,
          was_in_pos |-> FALSE, asked_entry |-> FALSE, low |-> RZero, high |-> RZero,
          slope |-> <<NaN, NaN, NaN>>, prev_slope |-> <<NaN, NaN, NaN>>, atr |-> NaN,
          optimized |-> FALSE, entry_params |-> <<>>]

\* What a directional strategy can answer at a candle
StopPrices == {1, 3}
TakeProfits == {NIL, 3}
TrailLines == {NIL, 0, 2}
ExitSignals == {None, "Signal"}

\* Variant: the stop replaced by the line, whatever the old stop
update_trailing_stop_to_line(pos, line) ==
    IF line = NIL THEN pos
    ELSE [pos EXCEPT !.stop_price = line]
\* BaseStrategy.update_trailing_stop and its overrides: no-op, or
\* max(stop_price, line); max(x, NaN) is x, so a NaN line is a no-op too.
update_trailing_stop(pos, line) ==
    IF line = NIL THEN pos
    ELSE [pos EXCEPT !.stop_price = Max2(pos.stop_price, line)]

\* Variant: the strategy's exit signal consulted before the protective exits
ExitDecision_signal_first(pos, price, s) ==
    IF s.exit # None
    THEN [reason |-> s.exit, pos |-> pos]
    ELSE IF s.tp # NIL /\ price >= s.tp
         THEN [reason |-> "Take Profit", pos |-> pos]
         ELSE LET p2 == update_trailing_stop(pos, s.line)
              IN  IF price <= p2.stop_price
                  THEN [reason |-> "Stop Loss", pos |-> p2]
                  ELSE [reason |-> None, pos |-> p2]
\* Lines 117-127: take profit, then trailing stop and stop breach, then the signal.
ExitDecision(pos, price, s) ==
    IF s.tp # NIL /\ price >= s.tp
    THEN [reason |-> "Take Profit", pos |-> pos]
    ELSE LET p2 == update_trailing_stop(pos, s.line)
         IN  IF price <= p2.stop_price
             THEN [reason |-> "Stop Loss", pos |-> p2]
             ELSE [reason |-> s.exit, pos |-> p2]

\* Variant: the trade logged with the proceeds as its pnl_value
CloseTrade_gross_proceeds(pos, price, t, reason) ==
    LET proceeds == RMul(pos.qty, R(price))
        pnl_val == proceeds
    IN  [entry_price |-> pos.entry_price, stop_price |-> pos.stop_price,
         qty |-> pos.qty, value |-> pos.value, entry_time |-> pos.entry_time,
         exit_time |-> t, exit_price |-> price, pnl_value |-> pnl_val,
         pnl_percent |-> IF RLt(RZero, pos.value)
                         THEN RMul(RDiv(pnl_val, pos.value), R(100)) ELSE RZero,
         exit_reason |-> reason]
\* Lines 130-134: the trade logged on exit.
CloseTrade(pos, price, t, reason) ==
    LET proceeds == RMul(pos.qty, R(price))
        pnl_val == RSub(proceeds, pos.value)
    IN  [entry_price |-> pos.entry_price, stop_price |-> pos.stop_price,
         qty |-> pos.qty, value |-> pos.value, entry_time |-> pos.entry_time,
         exit_time |-> t, exit_price |-> price, pnl_value |-> pnl_val,
         pnl_percent |-> IF RLt(RZero, pos.value)
                         THEN RMul(RDiv(pnl_val, pos.value), R(100)) ELSE RZero,
         exit_reason |-> reason]

\* Variant: entry without the comparison of the initial stop with the price
TryEnter_any_stop(pos, c, price, t, s) ==
    IF ~pos.in_pos /\ s.entry /\ RLt(RZero, c)
    THEN [pos |-> [in_pos |-> TRUE, entry_price |-> price, stop_price |-> s.stop,
                   qty |-> RDiv(c, R(price)), value |-> c, entry_time |-> t],
          cash |-> RZero]
    ELSE [pos |-> pos, cash |-> c]
\* Lines 138-144: entry when flat.
TryEnter(pos, c, price, t, s) ==
    IF ~pos.in_pos /\ s.entry /\ RLt(RZero, c) /\ s.stop < price
    THEN [pos |-> [in_pos |-> TRUE, entry_price |-> price, stop_price |-> s.stop,
                   qty |-> RDiv(c, R(price)), value |-> c, entry_time |-> t],
          cash |-> RZero]
    ELSE [pos |-> pos, cash |-> c]

\* Variant: no entry evaluation on a candle that closed a position
EntryEvaluated_next_candle(before, after_exit) == ~before.in_pos /\ ~after_exit.in_pos
\* Line 138: the entry signal is asked whenever the simulator is flat once the
\* candle's exit has been processed
EntryEvaluated(before, after_exit) == ~after_exit.in_pos

\* Variant: an open position carried at its entry value instead of marked to close
CurrentValue_at_cost(pos, c, price) ==
    IF pos.in_pos THEN pos.value ELSE c
\* Line 146
CurrentValue(pos, c, price) ==
    IF pos.in_pos THEN RMul(pos.qty, R(price)) ELSE c

\* One candle of the loop, lines 116-148. The strategy's answers are inputs:
\* the take-profit price, trailing line and exit signal of an open position,
\* and the entry signal and initial stop when the simulator is (or gets) flat.
GenericStep ==
    /\ pc = "loop" /\ mode = "generic" /\ i < Len(close)
    /\ \E tp \in (IF position.in_pos THEN TakeProfits ELSE {NIL}),
          ln \in (IF position.in_pos THEN TrailLines ELSE {NIL}),
          ex \in (IF position.in_pos THEN ExitSignals ELSE {None}) :
        LET price == PyIdx(close, i)
            x == [NoSig EXCEPT !.tp = tp, !.line = ln, !.exit = ex,
                               !.was_in_pos = position.in_pos]
            d == IF position.in_pos THEN ExitDecision(position, price, x)
                 ELSE [reason |-> None, pos |-> position]
            exited == d.reason # None
            pos1 == IF exited THEN FlatPosition ELSE d.pos
            cash1 == IF exited THEN RMul(position.qty, R(price)) ELSE cash
            asked == EntryEvaluated(position, pos1)
        IN  \E en \in (IF asked THEN BOOLEAN ELSE {FALSE}),
               st \in (IF asked THEN StopPrices ELSE {NIL}) :
            LET s == [x EXCEPT !.entry = en, !.stop = st, !.asked_entry = asked]
                e == TryEnter(pos1, cash1, price, i, s)
            IN  /\ sig' = s
                /\ trades' = IF exited
                             THEN Append(trades, CloseTrade(d.pos, price, i, d.reason))
                             ELSE trades
                /\ position' = e.pos
                /\ cash' = e.cash
                /\ equity_curve' = Append(equity_curve,
                       [ts |-> i, equity |-> CurrentValue(e.pos, e.cash, price)])
    /\ i' = i + 1
    /\ UNCHANGED fnVars
    /\ UNCHANGED <<pc, entry, mode, cfg, close, available_warmup, requested_start_idx, start_index, outcome, modeVars>>

\* ------------------------------------------------------------------------
\* Continuous grid mode (GridStrategy driven by run_continuous_backtest)
\* ------------------------------------------------------------------------
SpacingPcts == {50}
MaxGrids == {2, 3}
\* The candle's low and high as multiples of its close
LowWicks == {<<1, 1>>, <<1, 4>>}
HighWicks == {<<1, 1>>, <<4, 1>>}

grid_spacing_factor(c) == RAdd(R(1), RDiv(R(c.spacing_pct), R(100)))
quote_qty_per_grid(c) == RDiv(R(c.grid_capital), R(c.max_grids))

RMin(S) == CHOOSE x \in S : \A y \in S : RLe(x, y)
RMax(S) == CHOOSE x \in S : \A y \in S : RLe(y, x)

RECURSIVE SortAsc(_)
SortAsc(S) == IF S = {} THEN <<>> ELSE <<RMin(S)>> \o SortAsc(S \ {RMin(S)})
RECURSIVE SortDesc(_)
SortDesc(S) == IF S = {} THEN <<>> ELSE <<RMax(S)>> \o SortDesc(S \ {RMax(S)})

\* k levels below (down) or above (up) price p, one spacing factor apart
RECURSIVE LadderDown(_, _, _)
LadderDown(p, f, k) ==
    IF k = 0 THEN {} ELSE {RDiv(p, f)} \cup LadderDown(RDiv(p, f), f, k - 1)
RECURSIVE LadderUp(_, _, _)
LadderUp(p, f, k) ==
    IF k = 0 THEN {} ELSE {RMul(p, f)} \cup LadderUp(RMul(p, f), f, k - 1)

\* init_continuous_backtest
GridInit(initial_capital, start, closes, c) ==
    LET start_price == R(PyIdx(closes, start - 1))
        f == grid_spacing_factor(c)
        half == RDiv(R(initial_capital), R(2))
        num_buy_side_grids == c.max_grids \div 2
        num_sell_side_grids == c.max_grids - num_buy_side_grids
        base == RDiv(half, start_price)
    IN  [cash |-> half,
         base |-> base,
         buys |-> LadderDown(start_price, f, num_buy_side_grids),
         sells |-> LadderUp(start_price, f, num_sell_side_grids),
         trades |-> <<>>,
         equity_curve |-> <<[ts |-> (IF start = 0 THEN Len(closes) - 1 ELSE start - 1),
                             equity |-> RAdd(half, RMul(base, start_price))]>>]

\* BuyFill with the cash check of line 73 passing on any positive cash
BuyFill_on_any_cash(g, level, c) ==
    LET q == quote_qty_per_grid(c)
        f == grid_spacing_factor(c)
        left == g.buys \ {level}
    IN  IF RLe(g.cash, RZero) THEN g
        ELSE [g EXCEPT !.cash = RSub(g.cash, q),
                       !.base = RAdd(g.base, RDiv(q, level)),
                       !.sells = g.sells \cup {RMul(level, f)},
                       !.buys = IF left = {} THEN left
                                ELSE left \cup {RDiv(RMin(left), f)}]
\* BuyFill without the cash check of line 73
BuyFill_without_cash_guard(g, level, c) ==
    LET q == quote_qty_per_grid(c)
        f == grid_spacing_factor(c)
        left == g.buys \ {level}
    IN  [g EXCEPT !.cash = RSub(g.cash, q),
                  !.base = RAdd(g.base, RDiv(q, level)),
                  !.sells = g.sells \cup {RMul(level, f)},
                  !.buys = IF left = {} THEN left
                           ELSE left \cup {RDiv(RMin(left), f)}]

\* One iteration of the buy loop, lines 73-84
BuyFill(g, level, c) ==
    LET q == quote_qty_per_grid(c)
        f == grid_spacing_factor(c)
        left == g.buys \ {level}
    IN  IF RLt(g.cash, q) THEN g
        ELSE [g EXCEPT !.cash = RSub(g.cash, q),
                       !.base = RAdd(g.base, RDiv(q, level)),
                       !.sells = g.sells \cup {RMul(level, f)},
                       !.buys = IF left = {} THEN left
                                ELSE left \cup {RDiv(RMin(left), f)}]

\* SellFill without the base-asset check of line 92
SellFill_without_base_guard(g, level, c, t) ==
    LET q == quote_qty_per_grid(c)
        f == grid_spacing_factor(c)
        buy_price == RDiv(level, f)
        base_qty_to_sell == RDiv(q, buy_price)
        pnl_value == RMul(RSub(level, buy_price), base_qty_to_sell)
        left == g.sells \ {level}
    IN  [g EXCEPT !.cash = RAdd(g.cash, RMul(level, base_qty_to_sell)),
                  !.base = RSub(g.base, base_qty_to_sell),
                  !.trades = Append(g.trades,
                       [exit_time |-> t, exit_price |-> level,
                        entry_price |-> buy_price, pnl_value |-> pnl_value,
                        pnl_percent |-> RMul(RDiv(pnl_value, q), R(100)),
                        exit_reason |-> "Grid Pair Closed"]),
                  !.buys = g.buys \cup {buy_price},
                  !.sells = IF left = {} THEN left
                            ELSE left \cup {RMul(RMax(left), f)}]

\* One iteration of the sell loop, lines 89-111
SellFill(g, level, c, t) ==
    LET q == quote_qty_per_grid(c)
        f == grid_spacing_factor(c)
        buy_price == RDiv(level, f)
        base_qty_to_sell == RDiv(q, buy_price)
        pnl_value == RMul(RSub(level, buy_price), base_qty_to_sell)
        left == g.sells \ {level}
    IN  IF RLt(g.base, base_qty_to_sell) THEN g
        ELSE [g EXCEPT !.cash = RAdd(g.cash, RMul(level, base_qty_to_sell)),
                       !.base = RSub(g.base, base_qty_to_sell),
                       !.trades = Append(g.trades,
                            [exit_time |-> t, exit_price |-> level,
                             entry_price |-> buy_price, pnl_value |-> pnl_value,
                             pnl_percent |-> RMul(RDiv(pnl_value, q), R(100)),
                             exit_reason |-> "Grid Pair Closed"]),
                       !.buys = g.buys \cup {buy_price},
                       !.sells = IF left = {} THEN left
                                 ELSE left \cup {RMul(RMax(left), f)}]

RECURSIVE ProcessBuys(_, _, _)
ProcessBuys(g, levels, c) ==
    IF levels = <<>> THEN g
    ELSE LET g1 == CHOOSE x \in {BuyFill(g, Head(levels), c)} : TRUE
         IN  ProcessBuys(g1, Tail(levels), c)

RECURSIVE ProcessSells(_, _, _, _)
ProcessSells(g, levels, c, t) ==
    IF levels = <<>> THEN g
    ELSE LET g1 == CHOOSE x \in {SellFill(g, Head(levels), c, t)} : TRUE
         IN  ProcessSells(g1, Tail(levels), c, t)

\* process_candle
process_candle(g, t, candle_low, candle_high, price, c) ==
    LET filled_buys == {level \in g.buys : RLe(candle_low, level)}
        g1 == CHOOSE x \in {ProcessBuys(g, SortDesc(filled_buys), c)} : TRUE
        filled_sells == {level \in g1.sells : RLe(level, candle_high)}
        g2 == CHOOSE x \in {ProcessSells(g1, SortAsc(filled_sells), c, t)} : TRUE
        current_equity == RAdd(g2.cash, RMul(g2.base, R(price)))
    IN  [g2 EXCEPT !.equity_curve =
            Append(g2.equity_curve, [ts |-> t, equity |-> current_equity])]

GridState ==
    [cash |-> cash, base |-> base_asset_qty, buys |-> buy_orders,
     sells |-> sell_orders, trades |-> trades, equity_curve |-> equity_curve]

GridStep ==
    /\ pc = "loop" /\ mode = "grid" /\ i < Len(close)
    /\ \E lw \in LowWicks, hw \in HighWicks :
        LET price == PyIdx(close, i)
            lo == RMul(R(price), lw)
            hi == RMul(R(price), hw)
        IN  \E g \in {process_candle(GridState, i, lo, hi, price, cfg)} :
            /\ sig' = [NoSig EXCEPT !.low = lo, !.high = hi]
            /\ cash' = g.cash
            /\ base_asset_qty' = g.base
            /\ buy_orders' = g.buys
            /\ sell_orders' = g.sells
            /\ trades' = g.trades
            /\ equity_curve' = g.equity_curve
    /\ i' = i + 1
    /\ UNCHANGED fnVars
    /\ UNCHANGED <<pc, entry, mode, cfg, close, available_warmup, requested_start_idx, start_index, position, outcome,
                   best_params_memory>>

\* ------------------------------------------------------------------------
\* Self-reoptimizing legacy mode (run_legacy_backtest, DynamicMomentumOptimizer)
\* ------------------------------------------------------------------------
\* The config values of the run, scaled to the frame lengths explored here
REOPTIMIZE_EVERY == 2
TOP_PARAM_MEMORY == 1
CONFIDENCE_THRESHOLD == 3
TRAIL_TRIGGER_MULT == 1

\* self.grid: (fma, sma, atr_len, mult) with fma < sma. The moving-average
\* periods 1, 2 (fast) and 3 (slow) index the slope arrays slope_1..slope_3.
ParamGrid == <<<<1, 3, 1, 1>>, <<2, 3, 1, 1>>>>
\* What the three slope arrays and std_1 (the "atr") can hold at one index
IndicatorRows ==
    {[slope |-> <<NaN, NaN, NaN>>, atr |-> NaN],
     [slope |-> <<0, 0, 1>>, atr |-> 1],
     [slope |-> <<2, 0, 1>>, atr |-> 1],
     [slope |-> <<2, 2, 1>>, atr |-> 1],
     [slope |-> <<2, 2, 1>>, atr |-> NaN]}
\* What the slope arrays can hold just before the first simulated candle
PrevAtStart == {<<0, 0, 1>>}
\* What _score_params_numba can return for a tuple
ScoreValues == {0, 4}

FlatLegacy ==
    [in_pos |-> FALSE, entry |-> 0, stop |-> 0, qty |-> RZero, value |-> RZero,
     params |-> <<>>, entry_time |-> NIL]

\* optimize, lines 77-87: scores ranked in the order `order` (a permutation of the
\* grid indices that np.argsort(scores)[::-1] can return).
IsDescending(order, scores) ==
    \A a, b \in 1..Len(order) : a < b => scores[order[a]] >= scores[order[b]]

Orderings(k) ==
    {p \in [1..k -> 1..k] : \A a, b \in 1..k : a # b => p[a] # p[b]}

MemoryEntry(j, scores) == ParamGrid[j] \o <<scores[j]>>

\* optimize without the confidence test of line 81
optimize_cfg_without_threshold(scores, ordered_indices, top_n, threshold) ==
    LET top == SubSeq(ordered_indices, 1, Min2(Len(ordered_indices), top_n))
        kept == [k \in 1..Len(top) |-> MemoryEntry(top[k], scores)]
    IN  IF kept = <<>> /\ Len(ordered_indices) > 0
        THEN <<MemoryEntry(ordered_indices[1], scores)>>
        ELSE kept
\* optimize, lines 79-87: the memory it leaves when cfg['TOP_PARAM_MEMORY'] is
\* top_n and cfg['CONFIDENCE_THRESHOLD'] is threshold
optimize_cfg(scores, ordered_indices, top_n, threshold) ==
    LET confident == SelectSeq(ordered_indices, LAMBDA j : scores[j] >= threshold)
        top == SubSeq(confident, 1, Min2(Len(confident), top_n))
        kept == [k \in 1..Len(top) |-> MemoryEntry(top[k], scores)]
    IN  IF kept = <<>> /\ Len(ordered_indices) > 0
        THEN <<MemoryEntry(ordered_indices[1], scores)>>
        ELSE kept

\* The memory optimize leaves when cfg['TOP_PARAM_MEMORY'] is top_n
optimize_top(scores, ordered_indices, top_n) ==
    optimize_cfg(scores, ordered_indices, top_n, CONFIDENCE_THRESHOLD)

optimize(scores, ordered_indices) == optimize_top(scores, ordered_indices, TOP_PARAM_MEMORY)

\* run_legacy_backtest line 58 with the candle index taken from the start of
\* the frame instead of the start of the simulation
reoptimize_due_from_frame_start(t, start) == t % REOPTIMIZE_EVERY = 0
\* run_legacy_backtest line 58: the candles on which optimize is called
reoptimize_due(t, start) == (t - start) % REOPTIMIZE_EVERY = 0

\* Every memory a reoptimization can leave behind
Reoptimized ==
    {optimize(q[1], q[2]) :
        q \in {r \in [1..Len(ParamGrid) -> ScoreValues] \X Orderings(Len(ParamGrid)) :
                  IsDescending(r[2], r[1])}}

\* The bullish and bearish cross of the slope lines of periods fma and sma
BullCross(prev, cur, fma, sma) == Lt(prev[fma], prev[sma]) /\ Gt(cur[fma], cur[sma])
BearCross(prev, cur, fma, sma) == Gt(prev[fma], prev[sma]) /\ Lt(cur[fma], cur[sma])

\* get_entry_signal, lines 92-100: the first memory tuple with a bullish cross
RECURSIVE LearnedEntry(_, _, _)
LearnedEntry(memory, prev, cur) ==
    IF memory = <<>> THEN <<>>
    ELSE LET m == Head(memory)
             anyNaN == IsNaN(cur[m[1]]) \/ IsNaN(cur[m[2]])
                          \/ IsNaN(prev[m[1]]) \/ IsNaN(prev[m[2]])
         IN  IF ~anyNaN /\ BullCross(prev, cur, m[1], m[2])
             THEN <<m[1], m[2], m[3], m[4]>>
             ELSE LearnedEntry(Tail(memory), prev, cur)

\* Variant: the exploratory draw made whether or not a memory tuple qualified
get_entry_signal_explore_first(memory, prev, cur, explore, pick) ==
    IF explore /\ ParamGrid # <<>> THEN ParamGrid[pick]
    ELSE LearnedEntry(memory, prev, cur)
\* get_entry_signal, lines 89-106. explore is the outcome of
\* random.random() < EXPLORATION_RATE and pick the index random.choice draws;
\* <<>> stands for the None it returns when nothing was chosen.
get_entry_signal(memory, prev, cur, explore, pick) ==
    LET chosen_params == LearnedEntry(memory, prev, cur)
    IN  IF chosen_params = <<>> /\ explore
        THEN (IF ParamGrid # <<>> THEN ParamGrid[pick] ELSE <<>>)
        ELSE chosen_params

\* Variant: the stop compared before the slope cross
get_exit_signal_stop_first(price, pos, prev, cur) ==
    IF pos.params = <<>> THEN "Error"
    ELSE IF price < pos.stop THEN "Stop Loss"
         ELSE IF BearCross(prev, cur, pos.params[1], pos.params[2]) THEN "Signal Cross"
              ELSE None
\* get_exit_signal, lines 108-125
get_exit_signal(price, pos, prev, cur) ==
    IF pos.params = <<>> THEN "Error"
    ELSE IF BearCross(prev, cur, pos.params[1], pos.params[2]) THEN "Signal Cross"
         ELSE IF price < pos.stop THEN "Stop Loss"
              ELSE None

\* DynamicMomentumOptimizer.update_trailing_stop
legacy_update_trailing_stop(price, pos, atr_val) ==
    IF pos.params = <<>> \/ IsNaN(atr_val) THEN pos
    ELSE LET mult == pos.params[4]
             new_stop == price - atr_val * mult
         IN  IF price - pos.entry > atr_val * mult * TRAIL_TRIGGER_MULT
                /\ new_stop > pos.stop
             THEN [pos EXCEPT !.stop = new_stop]
             ELSE pos

\* Lines 65-66: the trade logged on exit
LegacyTrade(pos, price, t, reason) ==
    LET proceeds == RMul(pos.qty, R(price))
        pnl_val == RSub(proceeds, pos.value)
    IN  [entry |-> pos.entry, stop |-> pos.stop, qty |-> pos.qty, value |-> pos.value,
         params |-> pos.params, entry_time |-> pos.entry_time,
         exit_time |-> t, exit_price |-> price, pnl_value |-> pnl_val,
         pnl_percent |-> IF RLt(RZero, pos.value)
                         THEN RMul(RDiv(pnl_val, pos.value), R(100)) ELSE RZero,
         exit_reason |-> reason]

\* Lines 69-75: entry when flat
LegacyEnter(pos, c, price, t, entry_params, atr_val) ==
    IF ~pos.in_pos /\ entry_params # <<>> /\ RLt(RZero, c) /\ ~IsNaN(atr_val)
       /\ price - atr_val * entry_params[4] < price
    THEN [pos |-> [in_pos |-> TRUE, entry |-> price,
                   stop |-> price - atr_val * entry_params[4],
                   qty |-> RDiv(c, R(price)), value |-> c, params |-> entry_params,
                   entry_time |-> t],
          cash |-> RZero]
    ELSE [pos |-> pos, cash |-> c]

\* Lines 61-68: trailing-stop update and exit of an open position
LegacyExit(pos, c, price, prev, cur, atr_val) ==
    LET pos0 == IF pos.in_pos
                THEN legacy_update_trailing_stop(price, pos, atr_val)
                ELSE pos
        exit_reason == IF pos.in_pos
                       THEN get_exit_signal(price, pos0, prev, cur) ELSE None
        exited == exit_reason # None
    IN  [pos0 |-> pos0, exit_reason |-> exit_reason,
         pos1 |-> IF exited THEN FlatLegacy ELSE pos0,
         cash1 |-> IF exited THEN RMul(pos0.qty, R(price)) ELSE c]

\* One candle of the loop, lines 58-79. Inputs: the indicator values at index i
\* (and at i-1 on the first candle), the scores of a reoptimization, and the
\* draws of random.random() and random.choice(self.grid).
LegacyStep ==
    /\ pc = "loop" /\ mode = "legacy" /\ i < Len(close)
    /\ \E row \in IndicatorRows,
          prev \in (IF i = start_index THEN PrevAtStart ELSE {sig.slope}) :
       \E memory \in (IF reoptimize_due(i, start_index)
                      THEN Reoptimized
                      ELSE {best_params_memory}) :
        LET price == PyIdx(close, i)
            cur == row.slope
            atr_val == row.atr
            x == LegacyExit(position, cash, price, prev, cur, atr_val)
            pos0 == x.pos0
            exit_reason == x.exit_reason
            exited == exit_reason # None
            pos1 == x.pos1
            cash1 == x.cash1
        IN  \E entry_params \in
                (IF pos1.in_pos THEN {<<>>}
                 ELSE {get_entry_signal(memory, prev, cur, q[1], q[2]) :
                          q \in BOOLEAN \X (1..Len(ParamGrid))}) :
            LET e == LegacyEnter(pos1, cash1, price, i, entry_params, atr_val)
            IN  /\ sig' = [NoSig EXCEPT !.slope = cur, !.prev_slope = prev,
                                        !.atr = atr_val,
                                        !.was_in_pos = position.in_pos,
                                        !.asked_entry = ~pos1.in_pos,
                                        !.optimized = reoptimize_due(i, start_index),
                                        !.entry_params = entry_params]
                /\ best_params_memory' = memory
                /\ trades' = IF exited
                             THEN Append(trades, LegacyTrade(pos0, price, i, exit_reason))
                             ELSE trades
                /\ position' = e.pos
                /\ cash' = e.cash
                /\ equity_curve' = Append(equity_curve,
                       [ts |-> i, equity |-> CurrentValue(e.pos, e.cash, price)])
    /\ i' = i + 1
    /\ UNCHANGED fnVars
    /\ UNCHANGED <<pc, entry, mode, cfg, close, available_warmup, requested_start_idx, start_index, outcome, gridVars>>

\* ------------------------------------------------------------------------
\* Starting a run
\* ------------------------------------------------------------------------
\* The first lines of the three runners: a frame of n candles, start date at req.
RunnerStart(closes, req) ==
    LET n == Len(closes)
        start == get_start_index(n, req, cfg)
        refuse == IF mode = "grid" THEN start = NIL
                  ELSE start = NIL \/ n <= start
    IN  /\ close' = closes
        /\ best_params_memory' = <<>>
        /\ requested_start_idx' = req
        /\ start_index' = start
        /\ sig' = NoSig
        /\ position' = IF mode = "legacy" THEN FlatLegacy ELSE FlatPosition
        /\ IF refuse
           THEN /\ pc' = "done"
                /\ outcome' = Outcome("empty")
                /\ i' = 0
                /\ cash' = RZero
                /\ trades' = <<>>
                /\ equity_curve' = <<>>
                /\ UNCHANGED gridVars
           ELSE /\ pc' = "loop"
                /\ outcome' = NoOutcome
                /\ i' = start
                /\ IF mode = "grid"
                   THEN \E g \in {GridInit(cfg.capital, start, closes, cfg)} :
                        /\ cash' = g.cash
                        /\ base_asset_qty' = g.base
                        /\ buy_orders' = g.buys
                        /\ sell_orders' = g.sells
                        /\ trades' = g.trades
                        /\ equity_curve' = g.equity_curve
                   ELSE /\ cash' = R(cfg.capital)
                        /\ trades' = <<>>
                        /\ equity_curve' = <<>>
                        /\ UNCHANGED gridVars

LegacyClosePrices == {1, 3}
Frames(n) == [1..n -> IF mode = "legacy" THEN LegacyClosePrices ELSE ClosePrices]

\* _process_symbol, lines 47-50 and the runner call.
ProcessSymbol ==
    /\ pc = "start" /\ entry = "batch"
    /\ \E rawLen \in 0..MaxLen :
       \E start_iloc \in 0..rawLen, end_iloc \in 0..rawLen :
        LET df == get_data(rawLen, start_iloc, end_iloc, cfg.warmup, cfg.yfinance)
        IN  /\ available_warmup' = start_iloc - Max2(0, start_iloc - cfg.warmup)
            /\ CASE df.kind = "raise" ->
                   /\ pc' = "done"
                   /\ outcome' = [kind |-> "DataValidationError",
                                  required |-> df.required, available |-> df.available]
                   /\ UNCHANGED <<close, requested_start_idx, start_index, i, cash, position, trades,
                                  equity_curve, sig, modeVars>>
              [] df.kind = "empty" ->
                   /\ pc' = "done"
                   /\ outcome' = Outcome("skipped")
                   /\ UNCHANGED <<close, requested_start_idx, start_index, i, cash, position, trades,
                                  equity_curve, sig, modeVars>>
              [] df.kind = "frame" ->
                   IF \/ df.n < cfg.warmup \/ get_start_index(df.n, df.req, cfg) = NIL
                      \/ mode = "legacy" /\ cfg.yfinance
                   THEN /\ pc' = "done"
                        /\ outcome' = Outcome("skipped")
                        /\ start_index' = NIL
                        /\ requested_start_idx' = df.req
                        /\ \E closes \in Frames(df.n) : close' = closes
                        /\ UNCHANGED <<i, cash, position, trades, equity_curve, sig,
                                       modeVars>>
                   ELSE \E closes \in Frames(df.n) : RunnerStart(closes, df.req)
    /\ UNCHANGED fnVars
    /\ UNCHANGED <<entry, mode, cfg>>

\* A runner called directly on a frame.
DirectRun ==
    /\ pc = "start" /\ entry = "direct"
    /\ \E n \in 1..MaxLen : \E req \in 0..n, closes \in Frames(n) :
           RunnerStart(closes, req)
    /\ UNCHANGED fnVars
    /\ UNCHANGED <<entry, mode, cfg, available_warmup>>

\* The end of the loop: the runner returns its results.
Finish ==
    /\ pc = "loop" /\ i >= Len(close)
    /\ pc' = "done"
    /\ outcome' = Outcome("ok")
    /\ UNCHANGED fnVars
    /\ UNCHANGED <<entry, mode, cfg, close, available_warmup, requested_start_idx, start_index, i, cash, position, trades,
                   equity_curve, sig, modeVars>>

Configs ==
    [warmup : (0..MaxWarmup) \cup {NIL}, capital : Capitals, yfinance : BOOLEAN,
     spacing_pct : SpacingPcts, max_grids : MaxGrids, grid_capital : Capitals]

Init ==
    /\ pc = "start"
    /\ entry \in {"batch", "direct"}
    /\ mode \in Modes
    /\ cfg \in Configs
    /\ (mode # "grid" => cfg.max_grids = 2)
    /\ (entry = "direct" <=> cfg.warmup \in {NIL, 0} /\ ~cfg.yfinance)
    /\ (cfg.yfinance => cfg.warmup = MaxWarmup)
    /\ close = <<>>
    /\ available_warmup = NIL
    /\ requested_start_idx = NIL
    /\ start_index = NIL
    /\ i = 0
    /\ cash = RZero
    /\ position = FlatPosition
    /\ trades = <<>>
    /\ equity_curve = <<>>
    /\ sig = NoSig
    /\ buy_orders = {}
    /\ sell_orders = {}
    /\ base_asset_qty = RZero
    /\ best_params_memory = <<>>
    /\ outcome = NoOutcome
    /\ call = NoCall
    /\ ret = NoCall

Next ==
    \/ ProcessSymbol
    \/ DirectRun
    \/ GenericStep
    \/ GridStep
    \/ LegacyStep
    \/ Finish

Spec == Init /\ [][Next]_vars

\* One runner at a time
InitGeneric == Init /\ mode = "generic"
NextGeneric == ProcessSymbol \/ DirectRun \/ GenericStep \/ Finish
SpecGeneric == InitGeneric /\ [][NextGeneric]_vars

InitLegacy == Init /\ mode = "legacy"
NextLegacy == ProcessSymbol \/ DirectRun \/ LegacyStep \/ Finish
SpecLegacy == InitLegacy /\ [][NextLegacy]_vars

InitGrid == Init /\ mode = "grid"
NextGrid == ProcessSymbol \/ DirectRun \/ GridStep \/ Finish
SpecGrid == InitGrid /\ [][NextGrid]_vars

\* ------------------------------------------------------------------------
\* Functions called on their own
\* ------------------------------------------------------------------------
\* No backtest is running: the runner variables keep their initial values.
NoRun ==
    /\ entry = "direct" /\ mode = "generic"
    /\ cfg = [warmup |-> NIL, capital |-> 12, yfinance |-> FALSE,
              spacing_pct |-> 50, max_grids |-> 2, grid_capital |-> 12]
    /\ close = <<>> /\ available_warmup = NIL /\ requested_start_idx = NIL
    /\ start_index = NIL /\ i = 0 /\ cash = RZero /\ position = FlatPosition
    /\ trades = <<>> /\ equity_curve = <<>> /\ sig = NoSig
    /\ buy_orders = {} /\ sell_orders = {} /\ base_asset_qty = RZero
    /\ best_params_memory = <<>> /\ outcome = NoOutcome

\* A call with arguments drawn from calls, about to be evaluated
InitCall(calls) == pc = "call" /\ NoRun /\ call \in calls /\ ret = NoCall

\* The call returns v
Return(v) ==
    /\ pc = "call" /\ pc' = "return"
    /\ ret' = v
    /\ UNCHANGED <<entry, mode, cfg, close, available_warmup, requested_start_idx,
                   start_index, i, cash, position, trades, equity_curve, sig,
                   buy_orders, sell_orders, base_asset_qty, best_params_memory,
                   outcome, call>>

\* --- Indicator arrays ---
\* A float64 is an exact fraction <<n, d>> with d > 0, or the not-a-number QNaN.
\* Arithmetic with QNaN gives QNaN and every comparison with it is false.
QNaN == <<0, 0>>
QIsNaN(x) == x[2] = 0
Q(k) == <<k, 1>>
QAdd(x, y) == IF QIsNaN(x) \/ QIsNaN(y) THEN QNaN ELSE RAdd(x, y)
QSub(x, y) == IF QIsNaN(x) \/ QIsNaN(y) THEN QNaN ELSE RSub(x, y)
QMul(x, y) == IF QIsNaN(x) \/ QIsNaN(y) THEN QNaN ELSE RMul(x, y)
QOver(x, k) == QMul(x, <<1, k>>)
QLt(x, y) == ~QIsNaN(x) /\ ~QIsNaN(y) /\ RLt(x, y)
QGt(x, y) == QLt(y, x)
QLe(x, y) == ~QIsNaN(x) /\ ~QIsNaN(y) /\ RLe(x, y)
QAbs(x) == IF QIsNaN(x) THEN QNaN ELSE <<Abs(x[1]), x[2]>>
\* max(a, b) and min(a, b) as compiled: b replaces a only if it compares beyond it
QMax(x, y) == IF QGt(y, x) THEN y ELSE x
QMin(x, y) == IF QLt(y, x) THEN y ELSE x
\* np.sum / np.mean: a not-a-number element makes the result not-a-number
RECURSIVE QSum(_)
QSum(xs) == IF xs = <<>> THEN Q(0) ELSE QAdd(Head(xs), QSum(Tail(xs)))
QMean(xs) == QOver(QSum(xs), Len(xs))
NaNs(k) == [j \in 1..k |-> QNaN]

\* _sma_numba(arr, w), for len(arr) >= w >= 1
RECURSIVE SmaLoop(_, _, _, _, _)
SmaLoop(arr, w, t, out, current_sum) ==
    IF t >= Len(arr) THEN out
    ELSE LET sum == QAdd(current_sum, QSub(PyIdx(arr, t), PyIdx(arr, t - w)))
         IN  SmaLoop(arr, w, t + 1, Append(out, QOver(sum, w)), sum)
sma_numba(arr, w) ==
    LET current_sum == QSum(SubSeq(arr, 1, w))
    IN  SmaLoop(arr, w, w, Append(NaNs(w - 1), QOver(current_sum, w)), current_sum)

\* _ema_numba(arr, w), for len(arr) >= w >= 1
RECURSIVE EmaLoop(_, _, _, _)
EmaLoop(arr, w, t, out) ==
    IF t >= Len(arr) THEN out
    ELSE LET prev == Last(out)
             multiplier == <<2, w + 1>>
         IN  EmaLoop(arr, w, t + 1,
                     Append(out, QAdd(QMul(QSub(PyIdx(arr, t), prev), multiplier), prev)))
ema_numba(arr, w) ==
    EmaLoop(arr, w, w, Append(NaNs(w - 1), QMean(SubSeq(arr, 1, w))))

\* _rolling_slope_numba(arr, w), for len(arr) >= w >= 2 (denom is not 0)
RECURSIVE SumXY(_, _)
SumXY(arr, k) == IF k = 0 THEN Q(0)
                 ELSE QAdd(SumXY(arr, k - 1), QMul(arr[k], Q(k - 1)))
\* Lines 91-93 with sum_y updated before sum_xy reads it
slope_update_sum_y_first(sum_y, sum_xy, old_y, new_y, w) ==
    LET sy == QAdd(sum_y, QSub(new_y, old_y))
    IN  [sum_y |-> sy,
         sum_xy |-> QAdd(QSub(sum_xy, QSub(sy, old_y)), QMul(new_y, Q(w - 1)))]
\* Lines 91-93: the running sums move one position to the right
slope_update(sum_y, sum_xy, old_y, new_y, w) ==
    [sum_y |-> QAdd(sum_y, QSub(new_y, old_y)),
     sum_xy |-> QAdd(QSub(sum_xy, QSub(sum_y, old_y)), QMul(new_y, Q(w - 1)))]
RECURSIVE SlopeLoop(_, _, _, _, _, _)
SlopeLoop(arr, w, t, out, sum_y, sum_xy) ==
    IF t >= Len(arr) THEN out
    ELSE LET old_y == PyIdx(arr, t - w)
             new_y == PyIdx(arr, t)
             u == IF t >= w THEN slope_update(sum_y, sum_xy, old_y, new_y, w)
                  ELSE [sum_y |-> sum_y, sum_xy |-> sum_xy]
             sxy == u.sum_xy
             sy == u.sum_y
             mean_y == QOver(sy, w)
             numer == QSub(sxy, QMul(mean_y, <<w * (w - 1), 2>>))
             denom == Norm(w * (w * w - 1), 12)
         IN  SlopeLoop(arr, w, t + 1, Append(out, QMul(numer, RInv(denom))), sy, sxy)
rolling_slope_numba(arr, w) ==
    SlopeLoop(arr, w, w - 1, NaNs(w - 1), QSum(SubSeq(arr, 1, w)), SumXY(arr, w))

\* _rsi_numba(arr, w), for len(arr) > w >= 1
Gain(arr, k) == QMax(Q(0), QSub(arr[k + 2], arr[k + 1]))
Loss(arr, k) == QMax(Q(0), QSub(arr[k + 1], arr[k + 2]))
\* Variant: an average loss of 0 reads as RSI 0 instead of 100
RsiOf_zero_without_losses(avg_gain, avg_loss) ==
    IF avg_loss = Q(0) THEN Q(0)
    ELSE QSub(Q(100), QMul(Q(100), RInv(QAdd(Q(1), QMul(avg_gain, RInv(avg_loss))))))
\* Lines 109-110 and 113-114
RsiOf(avg_gain, avg_loss) ==
    IF avg_loss = Q(0) THEN Q(100)
    ELSE QSub(Q(100), QMul(Q(100), RInv(QAdd(Q(1), QMul(avg_gain, RInv(avg_loss))))))
RECURSIVE RsiLoop(_, _, _, _, _, _)
RsiLoop(arr, w, t, out, avg_gain, avg_loss) ==
    IF t >= Len(arr) - 1 THEN out
    ELSE LET ag == QOver(QAdd(QMul(avg_gain, Q(w - 1)), Gain(arr, t)), w)
             al == QOver(QAdd(QMul(avg_loss, Q(w - 1)), Loss(arr, t)), w)
         IN  RsiLoop(arr, w, t + 1, Append(out, RsiOf(ag, al)), ag, al)
rsi_numba(arr, w) ==
    LET avg_gain == QMean([k \in 1..w |-> Gain(arr, k - 1)])
        avg_loss == QMean([k \in 1..w |-> Loss(arr, k - 1)])
    IN  RsiLoop(arr, w, w, Append(NaNs(w), RsiOf(avg_gain, avg_loss)), avg_gain, avg_loss)

\* _atr_numba(high, low, close, w), for len(close) > w >= 1
TrueRange(high, low, closes, k) ==
    QMax(QMax(QSub(high[k + 2], low[k + 2]), QAbs(QSub(high[k + 2], closes[k + 1]))),
         QAbs(QSub(low[k + 2], closes[k + 1])))
RECURSIVE AtrLoop(_, _, _, _, _, _)
AtrLoop(high, low, closes, w, t, out) ==
    IF t >= Len(closes) THEN out
    ELSE AtrLoop(high, low, closes, w, t + 1,
                 Append(out, QOver(QAdd(QMul(Last(out), Q(w - 1)),
                                        TrueRange(high, low, closes, t - 1)), w)))
atr_numba(high, low, closes, w) ==
    AtrLoop(high, low, closes, w, w + 1,
            Append(NaNs(w), QMean([k \in 1..w |-> TrueRange(high, low, closes, k - 1)])))

\* _supertrend_numba: the line st and the direction st_dir (1 or -1)
RECURSIVE SupertrendLoop(_, _, _, _, _, _, _, _)
SupertrendLoop(high, low, closes, atr, multiplier, t, st, st_dir) ==
    IF t >= Len(closes) THEN [line |-> st, dir |-> st_dir]
    ELSE LET upper_band == QAdd(PyIdx(high, t - 1), QMul(Q(multiplier), PyIdx(atr, t - 1)))
             lower_band == QSub(PyIdx(low, t - 1), QMul(Q(multiplier), PyIdx(atr, t - 1)))
             prev == Last(st)
             prev_dir == Last(st_dir)
             st1 == IF QLe(PyIdx(closes, t - 1), prev) THEN QMin(upper_band, prev)
                    ELSE QMax(lower_band, prev)
             dir == IF QGt(PyIdx(closes, t), st1) THEN 1 ELSE -1
             st2 == IF dir > 0 /\ prev_dir < 0 THEN QMax(lower_band, prev)
                    ELSE IF dir < 0 /\ prev_dir > 0 THEN QMin(upper_band, prev)
                    ELSE st1
         IN  SupertrendLoop(high, low, closes, atr, multiplier, t + 1,
                            Append(st, st2), Append(st_dir, dir))
supertrend_numba(high, low, closes, atr, multiplier) ==
    SupertrendLoop(high, low, closes, atr, multiplier, 1, <<QNaN>>, <<1>>)

\* IndicatorFactory.get_indicators for the request {'sma': [p], 'slope': [p],
\* 'ema': [p], 'rsi': [p], 'atr': [p], 'macd': [{fast, slow, signal}]}
get_indicators(high, low, closes, p, macd) ==
    LET sma == sma_numba(closes, p)
        ema_fast == ema_numba(closes, macd.fast_period)
        ema_slow == ema_numba(closes, macd.slow_period)
        macd_line == [j \in 1..Len(closes) |-> QSub(ema_fast[j], ema_slow[j])]
    IN  [close |-> closes,
         sma |-> sma,
         slope |-> rolling_slope_numba(sma, p),
         ema |-> ema_numba(closes, p),
         rsi |-> rsi_numba(closes, p),
         atr |-> atr_numba(high, low, closes, p),
         macd |-> macd_line,
         signal |-> ema_numba(macd_line, macd.signal_period)]

\* Candle series of SeriesLen candles: integer closes, the high and the low at
\* the same distance above and below the close
SeriesLen == 5
Periods == {2, 3}
Spreads == {0, 1}
Candles(n) ==
    {[close |-> [j \in 1..n |-> Q(c[j])],
      high |-> [j \in 1..n |-> Q(c[j] + d)],
      low |-> [j \in 1..n |-> Q(c[j] - d)]] :
        c \in [1..n -> ClosePrices], d \in Spreads}

IndicatorCalls ==
    [fn : {"get_indicators"}, df : Candles(SeriesLen), p : Periods,
     macd : {[fast_period |-> 1, slow_period |-> 2, signal_period |-> 2]}]

EvalIndicators ==
    /\ call.fn = "get_indicators"
    /\ Return(get_indicators(call.df.high, call.df.low, call.df.close, call.p, call.macd))

SpecIndicators == InitCall(IndicatorCalls) /\ [][EvalIndicators]_vars

\* --- _rolling_slope_numba on arrays without not-a-number values ---
SlopeCalls ==
    [fn : {"_rolling_slope_numba"}, arr : {[j \in 1..SeriesLen |-> Q(c[j])] : c \in [1..SeriesLen -> ClosePrices]},
     w : Periods]
EvalSlope ==
    /\ call.fn = "_rolling_slope_numba"
    /\ Return(rolling_slope_numba(call.arr, call.w))
SpecSlope == InitCall(SlopeCalls) /\ [][EvalSlope]_vars

\* --- Directional strategies ---
\* The stoch %K line with slowing 1: rolling(k) low and high, rolling(1).mean()
StochK(high, low, closes, k) ==
    [j \in 1..Len(closes) |->
        IF j < k THEN QNaN
        ELSE LET lows == {low[m] : m \in (j - k + 1)..j}
                 highs == {high[m] : m \in (j - k + 1)..j}
                 low_k == CHOOSE x \in lows : \A y \in lows : RLe(x, y)
                 high_k == CHOOSE x \in highs : \A y \in highs : RLe(y, x)
             IN  IF high_k = low_k THEN QNaN
                 ELSE QMul(QMul(Q(100), QSub(closes[j], low_k)), RInv(QSub(high_k, low_k)))]

Strategies ==
    {"RSI_Reversion", "Trend_Filter_RSI_Entry", "RSI_Stoch_Combo_TP", "EMACross",
     "Supertrend_Follower"}
\* self.params: the periods are scaled to the series, the levels are the defaults
StrategyParams ==
    [RSI_PERIOD |-> 2, OVERSOLD |-> 30, OVERBOUGHT |-> 70,
     FILTER_PERIOD |-> 3, RSI_ENTRY |-> 40, RSI_EXIT |-> 70,
     K |-> 2, RSI_LEVEL |-> 35, STOCH_LEVEL |-> 25,
     FAST |-> 2, SLOW |-> 3, ATR_PERIOD |-> 2, ATR_MULT |-> 2, TP_MULT |-> 4,
     ST_PERIOD |-> 2, ST_MULTIPLIER |-> 1]

\* get_required_indicators handed to IndicatorFactory.get_indicators
StrategyIndicators(df, prm) ==
    LET atr == atr_numba(df.high, df.low, df.close, prm.ATR_PERIOD)
        st == supertrend_numba(df.high, df.low, df.close,
                               atr_numba(df.high, df.low, df.close, prm.ST_PERIOD),
                               prm.ST_MULTIPLIER)
    IN  [close |-> df.close,
         rsi |-> rsi_numba(df.close, prm.RSI_PERIOD),
         sma |-> sma_numba(df.close, prm.FILTER_PERIOD),
         stoch_k |-> StochK(df.high, df.low, df.close, prm.K),
         ema_fast |-> ema_numba(df.close, prm.FAST),
         ema_slow |-> ema_numba(df.close, prm.SLOW),
         atr |-> atr,
         st_line |-> st.line,
         st_dir |-> st.dir]

\* Variant: EMACross enters whenever the fast EMA is above the slow one
StrategyEntry_above(name, ind, prm, t) ==
    CASE name = "RSI_Reversion" -> QLt(PyIdx(ind.rsi, t), Q(prm.OVERSOLD))
      [] name = "Trend_Filter_RSI_Entry" ->
            /\ QGt(PyIdx(ind.close, t), PyIdx(ind.sma, t))
            /\ QLt(PyIdx(ind.rsi, t), Q(prm.RSI_ENTRY))
            /\ QLe(Q(prm.RSI_ENTRY), PyIdx(ind.rsi, t - 1))
      [] name = "RSI_Stoch_Combo_TP" ->
            /\ QLt(PyIdx(ind.rsi, t), Q(prm.RSI_LEVEL))
            /\ QLt(PyIdx(ind.stoch_k, t), Q(prm.STOCH_LEVEL))
      [] name = "EMACross" ->
            /\ QGt(PyIdx(ind.ema_fast, t), PyIdx(ind.ema_slow, t))
      [] name = "Supertrend_Follower" ->
            PyIdx(ind.st_dir, t - 1) < 0 /\ PyIdx(ind.st_dir, t) > 0
\* get_entry_signal(i) of the strategy classes
StrategyEntry(name, ind, prm, t) ==
    CASE name = "RSI_Reversion" -> QLt(PyIdx(ind.rsi, t), Q(prm.OVERSOLD))
      [] name = "Trend_Filter_RSI_Entry" ->
            /\ QGt(PyIdx(ind.close, t), PyIdx(ind.sma, t))
            /\ QLt(PyIdx(ind.rsi, t), Q(prm.RSI_ENTRY))
            /\ QLe(Q(prm.RSI_ENTRY), PyIdx(ind.rsi, t - 1))
      [] name = "RSI_Stoch_Combo_TP" ->
            /\ QLt(PyIdx(ind.rsi, t), Q(prm.RSI_LEVEL))
            /\ QLt(PyIdx(ind.stoch_k, t), Q(prm.STOCH_LEVEL))
      [] name = "EMACross" ->
            /\ QLt(PyIdx(ind.ema_fast, t - 1), PyIdx(ind.ema_slow, t - 1))
            /\ QGt(PyIdx(ind.ema_fast, t), PyIdx(ind.ema_slow, t))
      [] name = "Supertrend_Follower" ->
            PyIdx(ind.st_dir, t - 1) < 0 /\ PyIdx(ind.st_dir, t) > 0

\* get_exit_signal(i, position) of the strategy classes
StrategyExit(name, ind, prm, t) ==
    CASE name = "RSI_Reversion" ->
            IF QGt(PyIdx(ind.rsi, t), Q(prm.OVERBOUGHT)) THEN "RSI Overbought" ELSE None
      [] name = "Trend_Filter_RSI_Entry" ->
            IF QGt(PyIdx(ind.rsi, t), Q(prm.RSI_EXIT)) THEN "RSI exit level" ELSE None
      [] name = "RSI_Stoch_Combo_TP" -> None
      [] name = "EMACross" ->
            IF QLt(PyIdx(ind.ema_fast, t), PyIdx(ind.ema_slow, t))
            THEN "Death Cross (EMA)" ELSE None
      [] name = "Supertrend_Follower" ->
            IF PyIdx(ind.st_dir, t) < 0 THEN "Supertrend flip" ELSE None

\* Both signals of one strategy at every candle 1 .. n-1 of a series
Signals(name, df, prm) ==
    LET ind == CHOOSE x \in {StrategyIndicators(df, prm)} : TRUE
    IN  [ind |-> ind,
         entry_signal |-> [t \in 1..(Len(df.close) - 1) |-> StrategyEntry(name, ind, prm, t)],
         exit_signal |-> [t \in 1..(Len(df.close) - 1) |-> StrategyExit(name, ind, prm, t)]]

SignalCalls == [fn : {"signals"}, strategy : Strategies, df : Candles(SeriesLen)]

EvalSignals ==
    /\ call.fn = "signals"
    /\ Return(Signals(call.strategy, call.df, StrategyParams))

SpecSignals == InitCall(SignalCalls) /\ [][EvalSignals]_vars

\* --- DynamicMomentumOptimizer.get_entry_signal ---
\* Scores a tuple can have in memory, and the memories optimize leaves with
\* TOP_PARAM_MEMORY 1 or 2 (plus the empty memory of a fresh optimizer)
EntrySignalScores == {0, 4, 5}
EntrySignalMemories ==
    {<<>>} \cup
    {optimize_top(q[1], q[2], q[3]) :
        q \in {r \in [1..Len(ParamGrid) -> EntrySignalScores]
                        \X Orderings(Len(ParamGrid)) \X {1, 2} :
                  IsDescending(r[2], r[1])}}
\* slope_1, slope_2, slope_3 at one index
SlopeRows == {NaN, 0, 2} \X {NaN, 0, 2} \X {NaN, 1}

EntrySignalCalls ==
    [fn : {"get_entry_signal"}, memory : EntrySignalMemories,
     prev : SlopeRows, cur : SlopeRows,
     explore : BOOLEAN, pick : 1..Len(ParamGrid)]

EvalEntrySignal ==
    /\ call.fn = "get_entry_signal"
    /\ Return(get_entry_signal(call.memory, call.prev, call.cur, call.explore, call.pick))

SpecEntrySignal == InitCall(EntrySignalCalls) /\ [][EvalEntrySignal]_vars

\* --- optimize under every configuration, followed by get_entry_signal ---
\* Values of cfg['TOP_PARAM_MEMORY'] and cfg['CONFIDENCE_THRESHOLD']
TopParamMemories == {0, 1, 2}
ConfidenceThresholds == {0, 3, 6}
\* A score vector with an order np.argsort(scores)[::-1] can return for it
OptimizeCalls ==
    {[fn |-> "optimize", scores |-> q[1], ordered_indices |-> q[2],
      top_n |-> q[3], threshold |-> q[4]] :
        q \in {r \in [1..Len(ParamGrid) -> EntrySignalScores]
                        \X Orderings(Len(ParamGrid))
                        \X TopParamMemories \X ConfidenceThresholds :
                  IsDescending(r[2], r[1])}}

\* optimize, lines 77-87
EvalOptimize ==
    /\ pc = "call" /\ call.fn = "optimize"
    /\ pc' = "optimized"
    /\ best_params_memory' =
           optimize_cfg(call.scores, call.ordered_indices, call.top_n, call.threshold)
    /\ UNCHANGED <<entry, mode, cfg, close, available_warmup, requested_start_idx,
                   start_index, i, cash, position, trades, equity_curve, sig,
                   buy_orders, sell_orders, base_asset_qty, outcome, call, ret>>

\* get_entry_signal on a later candle, lines 89-100, when the exploratory draw
\* of line 103 does not come
EntryAfterOptimize ==
    /\ pc = "optimized"
    /\ pc' = "return"
    /\ \E prev \in SlopeRows, cur \in SlopeRows :
        /\ sig' = [NoSig EXCEPT !.prev_slope = prev, !.slope = cur, !.asked_entry = TRUE]
        /\ ret' = get_entry_signal(best_params_memory, prev, cur, FALSE, 1)
    /\ UNCHANGED <<entry, mode, cfg, close, available_warmup, requested_start_idx,
                   start_index, i, cash, position, trades, equity_curve,
                   buy_orders, sell_orders, base_asset_qty, best_params_memory,
                   outcome, call>>

SpecOptimize == InitCall(OptimizeCalls) /\ [][EvalOptimize \/ EntryAfterOptimize]_vars

\* --- _score_params_numba ---
\* Lines 17-34 for one tuple: candles i..end-1 of the window, st the running
\* (gp, gl, in_pos, entry, stop). The arrays are indexed from 0 as in the code.
RECURSIVE ScoreLoop(_, _, _, _, _, _, _, _, _)
ScoreLoop(fma, sma, atr, closes, mult, trail_trigger_mult, t, end, st) ==
    IF t >= end THEN st
    ELSE IF IsNaN(PyIdx(fma, t)) \/ IsNaN(PyIdx(sma, t)) \/ IsNaN(PyIdx(fma, t - 1))
              \/ IsNaN(PyIdx(sma, t - 1)) \/ IsNaN(PyIdx(atr, t))
         THEN ScoreLoop(fma, sma, atr, closes, mult, trail_trigger_mult, t + 1, end, st)
         ELSE
            LET gold == PyIdx(fma, t - 1) < PyIdx(sma, t - 1) /\ PyIdx(fma, t) > PyIdx(sma, t)
                death == PyIdx(fma, t - 1) > PyIdx(sma, t - 1) /\ PyIdx(fma, t) < PyIdx(sma, t)
                price == PyIdx(closes, t)
                a == PyIdx(atr, t)
                next ==
                    IF ~st.in_pos /\ gold
                    THEN [st EXCEPT !.in_pos = TRUE, !.entry = price,
                                    !.stop = price - a * mult]
                    ELSE IF st.in_pos
                    THEN LET new_stop == price - a * mult
                             stop == IF price - st.entry > a * mult * trail_trigger_mult
                                        /\ new_stop > st.stop
                                     THEN new_stop ELSE st.stop
                             pnl == RDiv(R(price - st.entry), R(st.entry))
                         IN  IF price < stop \/ death
                             THEN [st EXCEPT !.stop = stop, !.in_pos = FALSE,
                                       !.gp = IF RLt(RZero, pnl) THEN RAdd(@, pnl) ELSE @,
                                       !.gl = IF RLt(RZero, pnl) THEN @ ELSE RSub(@, pnl)]
                             ELSE [st EXCEPT !.stop = stop]
                    ELSE st
            IN  ScoreLoop(fma, sma, atr, closes, mult, trail_trigger_mult, t + 1, end, next)

\* Line 35: the score of one tuple from its gross profit and gross loss
ScoreOf(gp, gl) ==
    IF RLt(RZero, gl) THEN RDiv(gp, gl)
    ELSE IF RLt(RZero, gp) THEN RMul(gp, R(1000)) ELSE RZero

\* _score_params_numba: per grid tuple k the accumulated gp and gl and scores[k].
\* rows[j] holds slope_1..slope_3 and the atr at candle j-1.
score_params(rows, closes, start, end, trail_trigger_mult) ==
    [k \in 1..Len(ParamGrid) |->
        LET g == ParamGrid[k]
            fma == [j \in 1..Len(rows) |-> rows[j].slope[g[1]]]
            sma == [j \in 1..Len(rows) |-> rows[j].slope[g[2]]]
            atr == [j \in 1..Len(rows) |-> rows[j].atr]
            st == ScoreLoop(fma, sma, atr, closes, g[4], trail_trigger_mult, start + 1, end,
                            [gp |-> RZero, gl |-> RZero, in_pos |-> FALSE,
                             entry |-> 0, stop |-> 0])
        IN  [gp |-> st.gp, gl |-> st.gl, score |-> ScoreOf(st.gp, st.gl)]]

\* A scored window of ScoreWindow candles after the candle at start
ScoreWindow == 3
ScoreRows ==
    {[slope |-> <<NaN, NaN, NaN>>, atr |-> NaN],
     [slope |-> <<0, 0, 1>>, atr |-> 1],
     [slope |-> <<2, 0, 1>>, atr |-> 1],
     [slope |-> <<0, 2, 1>>, atr |-> 1],
     [slope |-> <<2, 2, 1>>, atr |-> 1],
     [slope |-> <<2, 2, 1>>, atr |-> NaN]}
ScoreCalls ==
    [fn : {"_score_params_numba"},
     rows : [1..(ScoreWindow + 1) -> ScoreRows],
     close : {<<1>> \o c : c \in [1..ScoreWindow -> ClosePrices]}]

EvalScoreParams ==
    /\ call.fn = "_score_params_numba"
    /\ Return(score_params(call.rows, call.close, 0, ScoreWindow + 1, TRAIL_TRIGGER_MULT))

SpecScoreParams == InitCall(ScoreCalls) /\ [][EvalScoreParams]_vars

\* --- _score_params_numba, the prange loop of line 12 run in parallel ---
\* The variables gp, gl, in_pos, entry, stop of iteration k (line 14): each
\* iteration of the prange body has its own
Slot_shared(k) == 1
Slot(k) == k
ZeroState == [gp |-> RZero, gl |-> RZero, in_pos |-> FALSE, entry |-> 0, stop |-> 0]
\* The windows scored: a first candle with both fast slopes below the slow one
ParallelCalls ==
    {q \in ScoreCalls : q.rows[1] = [slope |-> <<0, 0, 1>>, atr |-> 1] /\ q.close[2] = 1}
WindowEnd == ScoreWindow + 1
\* ret.at[k] is where iteration k stands: 0 before line 14, then the candle
\* index of its inner loop, WindowEnd before line 35 and WindowEnd + 1 after it.
\* ret.mixed records that an iteration took a step while another was under way.
UnderWay(k) == ret.at[k] > 0 /\ ret.at[k] <= WindowEnd
Mixed(k) == ret.mixed \/ \E j \in DOMAIN ParamGrid : j # k /\ UnderWay(j)
InitParallel ==
    /\ pc = "prange" /\ NoRun /\ call \in ParallelCalls
    /\ ret = [states |-> [k \in DOMAIN ParamGrid |-> ZeroState],
              at |-> [k \in DOMAIN ParamGrid |-> 0],
              scores |-> [k \in DOMAIN ParamGrid |-> RZero],
              mixed |-> FALSE]

\* Line 14: iteration k starts
StartTuple ==
    /\ pc = "prange"
    /\ \E k \in DOMAIN ParamGrid :
        /\ ret.at[k] = 0
        /\ ret' = [ret EXCEPT !.states[Slot(k)] = ZeroState, !.at[k] = 1,
                              !.mixed = Mixed(k)]
    /\ UNCHANGED <<pc, entry, mode, cfg, close, available_warmup, requested_start_idx,
                   start_index, i, cash, position, trades, equity_curve, sig,
                   buy_orders, sell_orders, base_asset_qty, best_params_memory,
                   outcome, call>>

\* Lines 15-34: iteration k processes one candle of its inner loop
ScoreCandle ==
    /\ pc = "prange"
    /\ \E k \in DOMAIN ParamGrid :
        /\ ret.at[k] > 0 /\ ret.at[k] < WindowEnd
        /\ LET g == ParamGrid[k]
               t == ret.at[k]
               fma == [j \in 1..Len(call.rows) |-> call.rows[j].slope[g[1]]]
               sma == [j \in 1..Len(call.rows) |-> call.rows[j].slope[g[2]]]
               atr == [j \in 1..Len(call.rows) |-> call.rows[j].atr]
           IN  ret' = [ret EXCEPT
                          !.states[Slot(k)] =
                              ScoreLoop(fma, sma, atr, call.close, g[4],
                                        TRAIL_TRIGGER_MULT, t, t + 1, ret.states[Slot(k)]),
                          !.at[k] = t + 1,
                          !.mixed = Mixed(k)]
    /\ UNCHANGED <<pc, entry, mode, cfg, close, available_warmup, requested_start_idx,
                   start_index, i, cash, position, trades, equity_curve, sig,
                   buy_orders, sell_orders, base_asset_qty, best_params_memory,
                   outcome, call>>

\* Line 35: iteration k writes scores[k]
WriteScore ==
    /\ pc = "prange"
    /\ \E k \in DOMAIN ParamGrid :
        /\ ret.at[k] = WindowEnd
        /\ ret' = [ret EXCEPT
                      !.scores[k] = ScoreOf(ret.states[Slot(k)].gp, ret.states[Slot(k)].gl),
                      !.at[k] = WindowEnd + 1,
                      !.mixed = Mixed(k)]
    /\ UNCHANGED <<pc, entry, mode, cfg, close, available_warmup, requested_start_idx,
                   start_index, i, cash, position, trades, equity_curve, sig,
                   buy_orders, sell_orders, base_asset_qty, best_params_memory,
                   outcome, call>>

\* Line 36: every iteration has finished and the scores are returned
ReturnScores ==
    /\ pc = "prange" /\ \A k \in DOMAIN ParamGrid : ret.at[k] = WindowEnd + 1
    /\ pc' = "return"
    /\ UNCHANGED <<entry, mode, cfg, close, available_warmup, requested_start_idx,
                   start_index, i, cash, position, trades, equity_curve, sig,
                   buy_orders, sell_orders, base_asset_qty, best_params_memory,
                   outcome, call, ret>>

SpecParallel ==
    InitParallel /\ [][StartTuple \/ ScoreCandle \/ WriteScore \/ ReturnScores]_vars

\* --- calculate_stats ---
\* round(x, 2) of a rational, in hundredths: to nearest, ties to even
Round2(x) ==
    LET n == x[1] * 100
        d == x[2]
        q == n \div d
        twice == 2 * (n - q * d)
    IN  IF twice < d THEN q
        ELSE IF twice > d THEN q + 1
        ELSE IF q % 2 = 0 THEN q ELSE q + 1

RECURSIVE SumSeq(_)
SumSeq(xs) == IF xs = <<>> THEN 0 ELSE Head(xs) + SumSeq(Tail(xs))

\* calculate_stats, lines 8-14 and the returned "Profit Factor" and "Total
\* Trades". pnl_values is the pnl_value column of trades_df; a finite factor is
\* reported in hundredths.
calculate_stats(pnl_values, equity_empty) ==
    IF pnl_values = <<>> \/ equity_empty
    THEN [total_trades |-> 0, profit_factor |-> [inf |-> FALSE, hundredths |-> 0]]
    ELSE LET wins == SelectSeq(pnl_values, LAMBDA v : v > 0)
             losses == SelectSeq(pnl_values, LAMBDA v : v <= 0)
             profit_factor ==
                 IF Abs(SumSeq(losses)) > 0
                 THEN [inf |-> FALSE,
                       hundredths |-> Round2(<<SumSeq(wins), Abs(SumSeq(losses))>>)]
                 ELSE [inf |-> TRUE, hundredths |-> 0]
         IN  [total_trades |-> Len(pnl_values), profit_factor |-> profit_factor]

MaxTrades == 4
PnlValues == {-1, 0, 1}
StatsCalls ==
    {c \in [fn : {"calculate_stats"},
            pnl_values : UNION {[1..n -> PnlValues] : n \in 0..MaxTrades},
            equity_empty : BOOLEAN] :
        c.equity_empty => c.pnl_values = <<>>}

EvalStats ==
    /\ call.fn = "calculate_stats"
    /\ Return(calculate_stats(call.pnl_values, call.equity_empty))

SpecStats == InitCall(StatsCalls) /\ [][EvalStats]_vars

\* --- _aggregate_curves ---
\* An equity curve is a function from its timestamps to its values.
\* pd.concat(axis=1): the sorted union of the indices
RECURSIVE SortedIndex(_)
SortedIndex(S) ==
    IF S = {} THEN <<>>
    ELSE LET m == CHOOSE x \in S : \A y \in S : x <= y
         IN  <<m>> \o SortedIndex(S \ {m})
\* One column of the concatenated frame: NaN where the curve has no row
Column(delta, index) ==
    [j \in 1..Len(index) |-> IF index[j] \in DOMAIN delta THEN delta[index[j]] ELSE NaN]
\* DataFrame.ffill on one column
RECURSIVE Ffill(_, _)
Ffill(col, out) ==
    IF Len(out) = Len(col) THEN out
    ELSE LET v == col[Len(out) + 1]
         IN  Ffill(col, Append(out, IF IsNaN(v) /\ out # <<>> THEN Last(out) ELSE v))
Fillna0(col) == [j \in 1..Len(col) |-> IF IsNaN(col[j]) THEN 0 ELSE col[j]]

\* Variant: the gaps filled with 0 without the forward fill
aggregate_curves_no_ffill(series_list, initial_capital_per_test, total_initial_capital) ==
    IF series_list = <<>> THEN [index |-> <<>>, values |-> <<>>]
    ELSE LET deltas == [k \in 1..Len(series_list) |->
                           [t \in DOMAIN series_list[k] |->
                               series_list[k][t] - initial_capital_per_test]]
             index == SortedIndex(UNION {DOMAIN deltas[k] : k \in 1..Len(deltas)})
             filled == [k \in 1..Len(deltas) |-> Fillna0(Column(deltas[k], index))]
         IN  [index |-> index,
              values |-> [j \in 1..Len(index) |->
                             SumSeq([k \in 1..Len(filled) |-> filled[k][j]])
                               + total_initial_capital]]
\* _aggregate_curves, lines 104-112
aggregate_curves(series_list, initial_capital_per_test, total_initial_capital) ==
    IF series_list = <<>> THEN [index |-> <<>>, values |-> <<>>]
    ELSE LET deltas == [k \in 1..Len(series_list) |->
                           [t \in DOMAIN series_list[k] |->
                               series_list[k][t] - initial_capital_per_test]]
             index == SortedIndex(UNION {DOMAIN deltas[k] : k \in 1..Len(deltas)})
             filled == [k \in 1..Len(deltas) |->
                           Fillna0(Ffill(Column(deltas[k], index), <<>>))]
         IN  [index |-> index,
              values |-> [j \in 1..Len(index) |->
                             SumSeq([k \in 1..Len(filled) |-> filled[k][j]])
                               + total_initial_capital]]

\* Curves over the days 1..MaxDays, of up to MaxCurves symbols
MaxDays == 3
MaxCurves == 2
PerTestCapital == 10
EquityValues == {9, 10, 11}
Curves == UNION {[D -> EquityValues] : D \in (SUBSET (1..MaxDays)) \ {{}}}
AggregateCalls ==
    [fn : {"_aggregate_curves"},
     series_list : UNION {[1..n -> Curves] : n \in 0..MaxCurves}]

\* _aggregate_and_save_report, lines 131-139
EvalAggregate ==
    /\ call.fn = "_aggregate_curves"
    /\ LET initial_capital_per_test == PerTestCapital
           total_initial_capital == initial_capital_per_test * Len(call.series_list)
       IN  Return(aggregate_curves(call.series_list, initial_capital_per_test,
                                   total_initial_capital))

SpecAggregate == InitCall(AggregateCalls) /\ [][EvalAggregate]_vars

\* --- The grid on an oscillating price ---
\* run_continuous_backtest on candles that take the price from the start price
\* to one bound, to the other bound and back, MaxCycles times. The bounds lie
\* on or just beyond the first buy and the first sell level; the spacing is
\* scaled to 100% so that the levels stay small fractions.
MaxCycles == 3
OscCfg ==
    [warmup |-> 0, capital |-> 1000, yfinance |-> FALSE,
     spacing_pct |-> 100, max_grids |-> 4, grid_capital |-> 1000]
Oscillations ==
    {o \in [fn : {"oscillation"}, start_price : {6, 12},
            lower : {2, 3, 4, 6}, upper : {12, 18, 24, 36},
            first : {"up", "down"}, candles : {"cycle", "legs", "fine"}] :
        /\ o.lower \in {o.start_price \div 2, o.start_price \div 3}
        /\ o.upper \in {o.start_price * 2, o.start_price * 3}}

\* The candles (low, high, close) of one oscillation. "cycle": one candle spans
\* both bounds; "legs": one candle per move between the start price and the
\* bounds; "fine": the moves cut between the grid levels, so that no candle
\* holds a buy level together with the sell level one spacing above it.
Candle(lo, hi, cl) == [low |-> lo, high |-> hi, close |-> cl]
OscCandles(o) ==
    LET p == o.start_price
        lm == p - (p \div 3)
        hm == p + (p \div 6)
    IN  CASE o.candles = "cycle" -> <<Candle(o.lower, o.upper, p)>>
          [] o.candles = "legs" /\ o.first = "up" ->
                <<Candle(p, o.upper, o.upper), Candle(o.lower, o.upper, o.lower),
                  Candle(o.lower, p, p)>>
          [] o.candles = "legs" /\ o.first = "down" ->
                <<Candle(o.lower, p, o.lower), Candle(o.lower, o.upper, o.upper),
                  Candle(p, o.upper, p)>>
          [] o.candles = "fine" /\ o.first = "up" ->
                <<Candle(p, o.upper, o.upper), Candle(hm, o.upper, hm),
                  Candle(lm, hm, lm), Candle(o.lower, lm, o.lower),
                  Candle(o.lower, p, p)>>
          [] o.candles = "fine" /\ o.first = "down" ->
                <<Candle(lm, p, lm), Candle(o.lower, lm, o.lower),
                  Candle(o.lower, hm, hm), Candle(hm, o.upper, hm),
                  Candle(p, hm, p)>>

InitOscillation ==
    /\ call \in Oscillations
    /\ pc = "oscillate" /\ entry = "direct" /\ mode = "grid" /\ cfg = OscCfg
    /\ close = <<call.start_price>>
    /\ available_warmup = NIL /\ requested_start_idx = NIL /\ start_index = 1 /\ i = 1
    /\ position = FlatPosition /\ sig = NoSig /\ best_params_memory = <<>>
    /\ outcome = NoOutcome
    /\ ret = [cycles |-> 0, leg |-> 0]
    /\ LET g == GridInit(cfg.capital, 1, close, cfg)
       IN  /\ cash = g.cash /\ base_asset_qty = g.base
           /\ buy_orders = g.buys /\ sell_orders = g.sells
           /\ trades = g.trades /\ equity_curve = g.equity_curve

\* One candle of the oscillation handed to process_candle
OscillationStep ==
    /\ pc = "oscillate" /\ ret.cycles < MaxCycles
    /\ LET candle == OscCandles(call)[ret.leg + 1]
       IN  \E g \in {process_candle(GridState, i, R(candle.low), R(candle.high),
                                     candle.close, cfg)} :
            /\ sig' = [NoSig EXCEPT !.low = R(candle.low), !.high = R(candle.high)]
            /\ cash' = g.cash
            /\ base_asset_qty' = g.base
            /\ buy_orders' = g.buys
            /\ sell_orders' = g.sells
            /\ trades' = g.trades
            /\ equity_curve' = g.equity_curve
    /\ i' = i + 1
    /\ ret' = IF ret.leg + 1 = Len(OscCandles(call))
              THEN [cycles |-> ret.cycles + 1, leg |-> 0]
              ELSE [ret EXCEPT !.leg = @ + 1]
    /\ UNCHANGED <<pc, entry, mode, cfg, close, available_warmup, requested_start_idx,
                   start_index, position, outcome, best_params_memory, call>>

SpecOscillation == InitOscillation /\ [][OscillationStep]_vars

\* --- run_generic_backtest driven by a strategy class ---
\* Strictly rising closes: every candle closes 1 or 2 above the one before
RisingCandles(n) ==
    {[close |-> [j \in 1..n |-> Q(SumSeq(SubSeq(s, 1, j)))],
      high |-> [j \in 1..n |-> Q(SumSeq(SubSeq(s, 1, j)) + d)],
      low |-> [j \in 1..n |-> Q(SumSeq(SubSeq(s, 1, j)) - d)]] :
        s \in [1..n -> {1, 2}], d \in Spreads}

\* get_stop_loss_price: _atr_stop, or the supertrend line
get_stop_loss_price(name, ind, prm, t, entry_price) ==
    IF name = "Supertrend_Follower" THEN PyIdx(ind.st_line, t)
    ELSE IF ~QIsNaN(PyIdx(ind.atr, t))
         THEN QSub(entry_price, QMul(PyIdx(ind.atr, t), Q(prm.ATR_MULT)))
         ELSE QMul(entry_price, <<19, 20>>)

\* get_take_profit_price: None (QNaN here) unless the strategy overrides it
get_take_profit_price(name, ind, prm, t, pos) ==
    IF name = "RSI_Stoch_Combo_TP" /\ ~QIsNaN(PyIdx(ind.atr, t))
    THEN QAdd(pos.entry_price, QMul(PyIdx(ind.atr, t), Q(prm.TP_MULT)))
    ELSE QNaN

\* update_trailing_stop of the strategy classes: a no-op unless overridden
strategy_update_trailing_stop(name, ind, t, pos) ==
    IF name = "Supertrend_Follower"
    THEN [pos EXCEPT !.stop_price = QMax(pos.stop_price, PyIdx(ind.st_line, t))]
    ELSE pos

\* One candle of run_generic_backtest, lines 116-148, with the strategy's
\* methods called as the loop calls them. c, pos and tr are the cash, position
\* and trades before the candle.
StrategyCandle(name, ind, prm, t, c, pos, tr) ==
    LET price == PyIdx(ind.close, t)
        tp_price == get_take_profit_price(name, ind, prm, t, pos)
        trailed == strategy_update_trailing_stop(name, ind, t, pos)
        d == IF ~pos.in_pos THEN [reason |-> None, pos |-> pos]
             ELSE IF ~QIsNaN(tp_price) /\ tp_price # Q(0) /\ QLe(tp_price, price)
                  THEN [reason |-> "Take Profit", pos |-> pos]
                  ELSE IF QLe(price, trailed.stop_price)
                       THEN [reason |-> "Stop Loss", pos |-> trailed]
                       ELSE [reason |-> StrategyExit(name, ind, prm, t), pos |-> trailed]
        exited == d.reason # None
        proceeds == QMul(d.pos.qty, price)
        pos1 == IF exited THEN FlatPosition ELSE d.pos
        cash1 == IF exited THEN proceeds ELSE c
        stop_price == get_stop_loss_price(name, ind, prm, t, price)
        enter == /\ ~pos1.in_pos
                 /\ StrategyEntry(name, ind, prm, t) /\ QGt(cash1, Q(0))
                 /\ QLt(stop_price, price)
        pos2 == IF enter
                THEN [in_pos |-> TRUE, entry_price |-> price, stop_price |-> stop_price,
                      qty |-> QMul(cash1, RInv(price)), value |-> cash1, entry_time |-> t]
                ELSE pos1
        cash2 == IF enter THEN Q(0) ELSE cash1
    IN  [cash |-> cash2, position |-> pos2,
         trades |-> IF exited
                    THEN Append(tr, [entry_price |-> d.pos.entry_price,
                                     entry_time |-> d.pos.entry_time,
                                     exit_time |-> t, exit_price |-> price,
                                     pnl_value |-> QSub(proceeds, d.pos.value),
                                     exit_reason |-> d.reason])
                    ELSE tr,
         current_value |-> IF pos2.in_pos THEN QMul(pos2.qty, price) ELSE cash2]

\* calculate_stats lines 19-21: the Sharpe ratio of an equity curve. The ratio
\* is a multiple of sqrt(365); kept are the cases the code separates (std NaN
\* on fewer than two returns, std 0, mean 0) and otherwise the sign of the mean.
sharpe_ratio(eq) ==
    LET returns == [k \in 1..(Len(eq) - 1) |->
                        QSub(QMul(eq[k + 1].equity, RInv(eq[k].equity)), Q(1))]
    IN  IF Len(eq) < 3 THEN [kind |-> "nan"]
        ELSE IF \A k \in DOMAIN returns : returns[k] = returns[1]
             THEN [kind |-> "zero"]
             ELSE IF QSum(returns) = Q(0) THEN [kind |-> "zero"]
                  ELSE [kind |-> "ratio", positive |-> QGt(QSum(returns), Q(0))]

\* Line 11 and the rounding of the returned "Total Return %", in hundredths
total_return_pct(equity, initial_capital) ==
    Round2(QMul(QMul(QSub(equity, Q(initial_capital)), <<1, initial_capital>>), Q(100)))

\* calculate_stats on the results of a run: "Total Trades", "Final Capital",
\* "Total Return %", "Sharpe Ratio (ann.)" and "Exit Reason Counts"
run_stats(tr, eq, initial_capital) ==
    IF tr = <<>> \/ eq = <<>>
    THEN [total_trades |-> 0, final_capital |-> Q(initial_capital),
          total_return_pct |-> 0,
          sharpe |-> [kind |-> "zero"], stop_losses |-> 0]
    ELSE [total_trades |-> Len(tr), final_capital |-> Last(eq).equity,
          total_return_pct |-> total_return_pct(Last(eq).equity, initial_capital),
          sharpe |-> sharpe_ratio(eq),
          stop_losses |-> Len(SelectSeq(tr, LAMBDA x : x.exit_reason = "Stop Loss"))]

\* The calls on series of n candles
StrategyRunCalls(n) ==
    {[fn |-> "run_generic_backtest", strategy |-> s, df |-> d, start_index |-> k,
      indicators |-> StrategyIndicators(d, StrategyParams)] :
        s \in Strategies, d \in Candles(n) \cup RisingCandles(n), k \in 0..(n - 1)}

\* Lines 101-113: the state before the first candle of the loop
InitStrategyRun ==
    /\ call \in StrategyRunCalls(SeriesLen)
    /\ pc = "strategy_loop" /\ entry = "direct" /\ mode = "generic"
    /\ cfg = [warmup |-> 0, capital |-> 12, yfinance |-> FALSE,
              spacing_pct |-> 50, max_grids |-> 2, grid_capital |-> 12]
    /\ close = call.df.close
    /\ available_warmup = NIL /\ requested_start_idx = call.start_index
    /\ start_index = call.start_index /\ i = call.start_index
    /\ cash = Q(cfg.capital) /\ position = FlatPosition
    /\ trades = <<>> /\ equity_curve = <<>> /\ sig = NoSig
    /\ buy_orders = {} /\ sell_orders = {} /\ base_asset_qty = RZero
    /\ best_params_memory = <<>> /\ outcome = NoOutcome
    /\ ret = NoCall

\* One candle of the loop
StrategyStep ==
    /\ pc = "strategy_loop" /\ i < Len(close)
    /\ \E r \in {StrategyCandle(call.strategy, call.indicators, StrategyParams, i,
                                cash, position, trades)} :
        /\ cash' = r.cash
        /\ position' = r.position
        /\ trades' = r.trades
        /\ equity_curve' = Append(equity_curve, [ts |-> i, equity |-> r.current_value])
    /\ i' = i + 1
    /\ UNCHANGED <<pc, entry, mode, cfg, close, available_warmup, requested_start_idx,
                   start_index, sig, outcome, modeVars, fnVars>>

\* Lines 150-167: the runner returns the stats of the run
StrategyFinish ==
    /\ pc = "strategy_loop" /\ i >= Len(close)
    /\ pc' = "done"
    /\ ret' = run_stats(trades, equity_curve, cfg.capital)
    /\ outcome' = Outcome("ok")
    /\ UNCHANGED <<entry, mode, cfg, close, available_warmup, requested_start_idx,
                   start_index, i, cash, position, trades, equity_curve, sig,
                   modeVars, call>>

SpecStrategyRun == InitStrategyRun /\ [][StrategyStep \/ StrategyFinish]_vars

\* --- run_batch_backtest ---
\* The random module after random.seed(SEED): a generator whose n-th draw is a
\* function of the seed and of the number n of draws made since seeding. A draw
\* holds what random.random() < EXPLORATION_RATE and random.choice(self.grid)
\* would answer at that position; the generators here repeat after StreamPeriod.
StreamPeriod == 2
Draws == [explore : BOOLEAN, pick : 1..Len(ParamGrid)]
Seeds == [1..StreamPeriod -> Draws]
RandomAt(seed, n) == seed[(n % StreamPeriod) + 1]

\* get_entry_signal, lines 89-106, drawing from the random module when n draws
\* were made before: random.random() is asked only when no learned tuple
\* qualified, random.choice only when it answered below the exploration rate.
get_entry_signal_random(memory, prev, cur, seed, n) ==
    LET learned == LearnedEntry(memory, prev, cur)
        explore == RandomAt(seed, n).explore
    IN  [params |-> get_entry_signal(memory, prev, cur, explore, RandomAt(seed, n + 1).pick),
         n |-> IF learned # <<>> THEN n
               ELSE IF explore /\ ParamGrid # <<>> THEN n + 2 ELSE n + 1]

\* precompute_legacy_indicators: the slope arrays are NaN at every index (the
\* rolling slope is computed over the SMA, whose NaN warmup poisons its sums)
BatchSlopes == <<NaN, NaN, NaN>>
\* What optimize leaves in memory on the frames below
BatchMemory == optimize(<<4, 0>>, <<1, 2>>)

\* run_legacy_backtest, lines 57-79, on a frame from its first candle
\* (TECHNICAL_WARMUP_PERIOD 0), st.n being the state of the random module
RECURSIVE LegacyRun(_, _, _, _)
LegacyRun(frame, seed, t, st) ==
    IF t >= Len(frame.close) THEN st
    ELSE LET price == PyIdx(frame.close, t)
             atr_val == PyIdx(frame.atr, t)
             memory == IF reoptimize_due(t, 0) THEN BatchMemory ELSE st.memory
             x == LegacyExit(st.pos, st.cash, price, BatchSlopes, BatchSlopes, atr_val)
             g == IF x.pos1.in_pos THEN [params |-> <<>>, n |-> st.n]
                  ELSE get_entry_signal_random(memory, BatchSlopes, BatchSlopes, seed, st.n)
             e == LegacyEnter(x.pos1, x.cash1, price, t, g.params, atr_val)
         IN  LegacyRun(frame, seed, t + 1,
                 [cash |-> e.cash, pos |-> e.pos, memory |-> memory, n |-> g.n,
                  trades |-> IF x.exit_reason # None
                             THEN Append(st.trades,
                                         LegacyTrade(x.pos0, price, t, x.exit_reason))
                             ELSE st.trades,
                  equity_curve |-> Append(st.equity_curve,
                      [ts |-> t, equity |-> CurrentValue(e.pos, e.cash, price)])])

\* STRATEGY_MAPPING: the legacy optimizer, and the generic strategies
LegacyName == "Dynamic_Momentum_Optimizer"
StrategyNames == Strategies \cup {LegacyName}

\* _process_symbol, lines 53-91: the loop over config["STRATEGIES"] from item j
\* on. st holds the symbol's results, the messages printed, the runs whose
\* runner returned, the state of the random module, and whether an exception
\* left the loop. An item marked raises stands for a run that raises an
\* exception other than DataValidationError.
RECURSIVE StrategyLoop(_, _, _, _, _, _)
StrategyLoop(a, frame, items, capital, seed, st) ==
    IF st.j > Len(items) THEN st
    ELSE LET item == items[st.j]
             next == [st EXCEPT !.j = @ + 1]
         IN  IF item.raises
             THEN [st EXCEPT !.raised = TRUE, !.j = Len(items) + 1,
                             !.printed = Append(@, [symbol |-> a,
                                 text |-> "An unexpected technical error occurred"])]
             ELSE IF item.name = LegacyName
             THEN LET r == LegacyRun(frame, seed, 0,
                               [cash |-> R(capital), pos |-> FlatLegacy, memory |-> <<>>,
                                n |-> st.n, trades |-> <<>>, equity_curve |-> <<>>])
                  IN  StrategyLoop(a, frame, items, capital, seed,
                          [next EXCEPT !.n = r.n,
                                       !.ran = @ \cup {<<a, st.j>>},
                                       !.results = Append(@,
                                           [symbol |-> a, item |-> st.j,
                                            strategy_name |-> item.name,
                                            trades |-> r.trades,
                                            equity_curve |-> r.equity_curve])])
             ELSE IF item.name \notin StrategyNames
             THEN StrategyLoop(a, frame, items, capital, seed,
                      [next EXCEPT !.printed = Append(@, [symbol |-> a,
                                       text |-> "Error: Strategy not found."])])
             ELSE StrategyLoop(a, frame, items, capital, seed,
                      [next EXCEPT !.ran = @ \cup {<<a, st.j>>},
                                   !.results = Append(@,
                                       [symbol |-> a, item |-> st.j,
                                        strategy_name |-> item.name,
                                        trades |-> <<"run_generic_backtest", frame.close>>,
                                        equity_curve |-> <<"run_generic_backtest",
                                                           frame.close>>])])

\* One symbol: _process_symbol returns results_for_symbol, also when an
\* exception was caught (lines 92-98)
process_symbol(a, frame, items, capital, seed, n) ==
    StrategyLoop(a, frame, items, capital, seed,
                 [j |-> 1, n |-> n, results |-> <<>>, printed |-> <<>>, ran |-> {},
                  raised |-> FALSE])

\* The batches: 1 or 2 symbols with frames of two candles, 1 or 2 strategy items
BatchFrames == {[close |-> c, atr |-> <<1, 1>>] : c \in [1..2 -> LegacyClosePrices]}
StrategyItems ==
    [name : {"RSI_Reversion", LegacyName}, raises : BOOLEAN]
        \cup [name : {"No_Such_Strategy"}, raises : {FALSE}]
MaxSymbols == 2
MaxStrategies == 2
BatchCalls(ns, nt) ==
    [fn : {"run_batch_backtest"}, SEED : Seeds,
     symbols : UNION {[1..k -> BatchFrames] : k \in 1..ns},
     STRATEGIES : UNION {[1..k -> StrategyItems] : k \in 1..nt}]

\* run_batch_backtest, lines 226-247: the random module is seeded once
InitBatch ==
    /\ call \in BatchCalls(MaxSymbols, MaxStrategies)
    /\ pc = "batch" /\ entry = "batch" /\ mode = "legacy"
    /\ cfg = [warmup |-> 0, capital |-> 12, yfinance |-> FALSE,
              spacing_pct |-> 50, max_grids |-> 2, grid_capital |-> 12]
    /\ close = <<>> /\ available_warmup = NIL /\ requested_start_idx = NIL
    /\ start_index = NIL /\ i = 0 /\ cash = RZero /\ position = FlatPosition
    /\ trades = <<>> /\ equity_curve = <<>> /\ sig = NoSig
    /\ buy_orders = {} /\ sell_orders = {} /\ base_asset_qty = RZero
    /\ best_params_memory = <<>> /\ outcome = NoOutcome
    /\ ret = [k |-> 1, n |-> 0, all_individual_results |-> <<>>, printed |-> <<>>,
              ran |-> {}]

\* Lines 253-257: one symbol of the loop
BatchSymbol ==
    /\ pc = "batch" /\ ret.k <= Len(call.symbols)
    /\ \E r \in {process_symbol(ret.k, call.symbols[ret.k], call.STRATEGIES,
                                cfg.capital, call.SEED, ret.n)} :
        ret' = [k |-> ret.k + 1, n |-> r.n,
                all_individual_results |-> ret.all_individual_results \o r.results,
                printed |-> ret.printed \o r.printed,
                ran |-> ret.ran \cup r.ran]
    /\ UNCHANGED <<pc, entry, mode, cfg, close, available_warmup, requested_start_idx,
                   start_index, i, cash, position, trades, equity_curve, sig,
                   modeVars, outcome, call>>

\* Line 259 and _aggregate_and_save_report: the caller receives the path of a
\* report of the individual tests, or "" when there are none
BatchFinish ==
    /\ pc = "batch" /\ ret.k > Len(call.symbols)
    /\ pc' = "done"
    /\ outcome' = IF ret.all_individual_results = <<>>
                  THEN [kind |-> "no report", individual_tests |-> <<>>]
                  ELSE [kind |-> "report",
                        individual_tests |-> ret.all_individual_results]
    /\ UNCHANGED <<entry, mode, cfg, close, available_warmup, requested_start_idx,
                   start_index, i, cash, position, trades, equity_curve, sig,
                   modeVars, fnVars>>

SpecBatch == InitBatch /\ [][BatchSymbol \/ BatchFinish]_vars

\* --- process_candle, its buy loop and its sell loop one after the other ---
\* The strategy's INITIAL_CAPITAL parameter (params_def default or override)
\* next to the config's INITIAL_CAPITAL of the run
GridCapitals == {6, 12}
PhaseCfgs ==
    [warmup : {0}, capital : Capitals, yfinance : {FALSE}, spacing_pct : {50, 100},
     max_grids : {2, 3, 4}, grid_capital : GridCapitals]
\* The first close, and the lows, highs and closes of the candles after it
PhaseStartPrice == 8
PhasePrices == {2, 4, 8, 16, 32}
PhaseCandles ==
    {q \in [low : PhasePrices, high : PhasePrices, last : {"low", "high"}] :
        q.low <= q.high}
MaxCandles == 2

\* run_continuous_backtest up to the first candle: init_continuous_backtest
InitPhases ==
    /\ cfg \in PhaseCfgs
    /\ pc = "buys" /\ entry = "direct" /\ mode = "grid"
    /\ close = <<PhaseStartPrice>>
    /\ available_warmup = NIL /\ requested_start_idx = 1 /\ start_index = 1 /\ i = 1
    /\ position = FlatPosition /\ sig = NoSig /\ best_params_memory = <<>>
    /\ outcome = NoOutcome /\ call = NoCall
    /\ LET g == GridInit(cfg.capital, 1, close, cfg)
       IN  /\ cash = g.cash /\ base_asset_qty = g.base
           /\ buy_orders = g.buys /\ sell_orders = g.sells
           /\ trades = g.trades /\ equity_curve = g.equity_curve
           /\ ret = [before |-> g]

\* process_candle lines 70-84: the candle's low and high are read and the buy
\* loop runs. ret.before keeps the state the loop started from.
CandleBuys ==
    /\ pc = "buys" /\ i <= MaxCandles
    /\ \E q \in PhaseCandles :
        LET filled_buys == {level \in buy_orders : RLe(R(q.low), level)}
        IN  \E g \in {ProcessBuys(GridState, SortDesc(filled_buys), cfg)} :
            /\ sig' = [NoSig EXCEPT !.low = R(q.low), !.high = R(q.high)]
            /\ close' = Append(close, IF q.last = "low" THEN q.low ELSE q.high)
            /\ ret' = [before |-> GridState]
            /\ cash' = g.cash /\ base_asset_qty' = g.base
            /\ buy_orders' = g.buys /\ sell_orders' = g.sells
    /\ pc' = "sells"
    /\ UNCHANGED <<entry, mode, cfg, available_warmup, requested_start_idx, start_index,
                   i, position, trades, equity_curve, best_params_memory, outcome, call>>

\* process_candle lines 86-114: the sell loop and the candle's equity point
CandleSells ==
    /\ pc = "sells"
    /\ LET filled_sells == {level \in sell_orders : RLe(level, sig.high)}
       IN  \E g \in {ProcessSells(GridState, SortAsc(filled_sells), cfg, i)} :
            /\ ret' = [before |-> GridState]
            /\ cash' = g.cash /\ base_asset_qty' = g.base
            /\ buy_orders' = g.buys /\ sell_orders' = g.sells
            /\ trades' = g.trades
            /\ equity_curve' = Append(equity_curve,
                   [ts |-> i, equity |-> RAdd(g.cash, RMul(g.base, R(Last(close))))])
    /\ pc' = "buys" /\ i' = i + 1
    /\ UNCHANGED <<entry, mode, cfg, close, available_warmup, requested_start_idx,
                   start_index, position, sig, best_params_memory, outcome, call>>

SpecPhases == InitPhases /\ [][CandleBuys \/ CandleSells]_vars

\* ------------------------------------------------------------------------
\* Properties
\* ------------------------------------------------------------------------
Simulated == pc \in {"loop", "done"} /\ start_index # NIL /\ i > start_index

C2_ExitOrdering ==
    [][ (mode = "generic" /\ pc = "loop" /\ i' = i + 1 /\ position.in_pos) =>
          LET price == PyIdx(close, i)
              tpHit == sig'.tp # NIL /\ price >= sig'.tp
              trailed == IF sig'.line = NIL THEN position.stop_price
                         ELSE Max2(position.stop_price, sig'.line)
              stopHit == price <= trailed
              closed == Len(trades') = Len(trades) + 1
          IN  /\ tpHit => /\ closed
                          /\ Last(trades').exit_reason = "Take Profit"
                          /\ Last(trades').stop_price = position.stop_price
              /\ (~tpHit /\ stopHit) => /\ closed
                                        /\ Last(trades').exit_reason = "Stop Loss"
                                        /\ Last(trades').stop_price = trailed
              /\ (~tpHit /\ ~stopHit /\ sig'.exit # None) =>
                     closed /\ Last(trades').exit_reason = sig'.exit
              /\ (~tpHit /\ ~stopHit /\ sig'.exit = None) =>
                     /\ trades' = trades
                     /\ position'.in_pos
                     /\ position'.stop_price = trailed
      ]_vars

\* C2 case: "Stop Loss" recorded against the stop raised on that candle, on a
\* candle where the strategy also signalled an exit
C2_Witness ==
    /\ mode = "generic" /\ trades # <<>>
    /\ Last(trades).exit_time = i - 1
    /\ Last(trades).exit_reason = "Stop Loss"
    /\ sig.exit # None
    /\ sig.line # NIL /\ Last(trades).stop_price = sig.line

\* C3 as stated: in generic mode, flat (also just after an exit) with an entry
\* signal and cash > 0, a position is opened on that candle with the entire cash
\* at close[i], whatever the initial stop; an open position is never replaced.
C3_EntryWheneverSignalled ==
    [][ (mode = "generic" /\ pc = "loop" /\ i' = i + 1) =>
          LET price == PyIdx(close, i)
              closed == Len(trades') = Len(trades) + 1
              flat == ~position.in_pos \/ closed
              funds == IF closed THEN RMul(position.qty, R(price)) ELSE cash
          IN  /\ (flat /\ sig'.entry /\ RLt(RZero, funds)) =>
                     /\ position' = [in_pos |-> TRUE, entry_price |-> price,
                                     stop_price |-> sig'.stop,
                                     qty |-> RDiv(funds, R(price)), value |-> funds,
                                     entry_time |-> i]
                     /\ cash' = RZero
              /\ (position.in_pos /\ ~closed) =>
                     /\ position'.in_pos
                     /\ position'.entry_time = position.entry_time
                     /\ position'.qty = position.qty
      ]_vars

\* C3 amended: the position is opened exactly when, in addition, the strategy's
\* initial stop is below close[i]; with a stop at or above the close the
\* simulator stays flat and keeps its cash.
C3_EntryWhenStopBelowClose ==
    [][ (mode = "generic" /\ pc = "loop" /\ i' = i + 1) =>
          LET price == PyIdx(close, i)
              closed == Len(trades') = Len(trades) + 1
              flat == ~position.in_pos \/ closed
              funds == IF closed THEN RMul(position.qty, R(price)) ELSE cash
          IN  /\ (flat /\ sig'.entry /\ RLt(RZero, funds) /\ sig'.stop < price) =>
                     /\ position' = [in_pos |-> TRUE, entry_price |-> price,
                                     stop_price |-> sig'.stop,
                                     qty |-> RDiv(funds, R(price)), value |-> funds,
                                     entry_time |-> i]
                     /\ cash' = RZero
              /\ (flat /\ sig'.entry /\ sig'.stop >= price) =>
                     ~position'.in_pos /\ cash' = funds
              /\ (position.in_pos /\ ~closed) =>
                     /\ position'.in_pos
                     /\ position'.entry_time = position.entry_time
                     /\ position'.qty = position.qty
      ]_vars

\* C3 case: a position opened on the last candle on an entry signal
C3_Witness ==
    /\ mode = "generic" /\ Simulated
    /\ position.in_pos /\ position.entry_time = i - 1
    /\ sig.entry /\ sig.stop < position.entry_price
    /\ cash = RZero

\* C4 as stated: in grid mode, after init and after every candle, the buy and
\* sell ladders hold at most max_grid_count distinct levels together.
GridRunning == mode = "grid" /\ pc \in {"loop", "done"} /\ start_index # NIL

C4_LevelCountBounded ==
    GridRunning => Cardinality(buy_orders \cup sell_orders) <= cfg.max_grids

\* C5 as stated: in grid mode, after every candle, every level is the start
\* price times an integer power of the spacing factor, and the sorted levels
\* of each ladder are exactly one spacing factor apart.
RECURSIVE RPow(_, _)
RPow(f, k) == IF k = 0 THEN R(1)
              ELSE IF k < 0 THEN RDiv(RPow(f, k + 1), f)
                   ELSE RMul(RPow(f, k - 1), f)

OnLattice(level) ==
    \E k \in -(2 * MaxLen + 2)..(2 * MaxLen + 2) :
        level = RMul(R(PyIdx(close, start_index - 1)), RPow(grid_spacing_factor(cfg), k))

Contiguous(ladder) ==
    LET sorted == SortAsc(ladder)
    IN  \A j \in 1..(Len(sorted) - 1) :
            sorted[j + 1] = RMul(sorted[j], grid_spacing_factor(cfg))

C5_LaddersContiguous ==
    (GridRunning /\ i > start_index) =>
        /\ \A level \in buy_orders \cup sell_orders : OnLattice(level)
        /\ Contiguous(buy_orders)
        /\ Contiguous(sell_orders)

\* C6: an index returned by _get_start_index is max(requested start index,
\* warmup length); with warmup 0 and the start date at index 1 of a frame of at
\* least 2 candles the run proceeds from index 1 without an insufficient-data
\* outcome.
C6_StartIndex ==
    /\ start_index # NIL =>
          /\ start_index = (IF requested_start_idx >= technical_warmup(cfg)
                            THEN requested_start_idx ELSE technical_warmup(cfg))
          /\ start_index >= technical_warmup(cfg)
          /\ start_index >= requested_start_idx
          /\ start_index < Len(close)
    /\ (pc # "start" /\ cfg.warmup = 0 /\ requested_start_idx = 1 /\ Len(close) >= 2) =>
          /\ start_index = 1
          /\ pc \in {"loop", "done"}
          /\ outcome.kind \in {"none", "ok"}

\* C6 case: warmup 0, start date at index 1 of a frame of at least 2 candles,
\* and the frame's last candle simulated
C6_Witness ==
    /\ cfg.warmup = 0 /\ requested_start_idx = 1 /\ Len(close) >= 2
    /\ start_index = 1 /\ outcome.kind = "ok" /\ Len(equity_curve) >= 1

\* C7 as stated: a runner whose effective start index meets or exceeds the
\* frame's length fails with an InsufficientData error delivered to its caller,
\* and produces no trade and no equity point.
C7_RunnerRaises ==
    (pc = "done" /\ entry = "direct"
       /\ Max2(technical_warmup(cfg), requested_start_idx) >= Len(close)) =>
        /\ outcome.kind = "InsufficientData"
        /\ trades = <<>>
        /\ equity_curve = <<>>

\* C8 as stated: with fewer than warmup_length candles before the requested
\* start date the caller receives a DataValidationError naming the required and
\* the available counts, whatever the data source; no silent skip, no later start.
C8_ShortWarmupRaises ==
    (entry = "batch" /\ pc # "start" /\ available_warmup < cfg.warmup) =>
        /\ outcome.kind = "DataValidationError"
        /\ outcome.required = cfg.warmup
        /\ outcome.available = available_warmup

\* C9: in generic mode, on a candle that exits a position the whole position is
\* turned into cash and one trade with its realized P&L is appended, and then
\* the entry signal is evaluated on that same candle: a new position opens at
\* the same close with the exit proceeds, its entry_time the trade's exit_time.
C9_ExitThenEntry ==
    [][ (mode = "generic" /\ pc = "loop" /\ i' = i + 1 /\ position.in_pos
           /\ Len(trades') = Len(trades) + 1) =>
          LET price == PyIdx(close, i)
              t == Last(trades')
              proceeds == RMul(position.qty, R(price))
          IN  /\ SubSeq(trades', 1, Len(trades)) = trades
              /\ t.qty = position.qty /\ t.value = position.value
              /\ t.entry_time = position.entry_time
              /\ t.exit_time = i /\ t.exit_price = price
              /\ t.pnl_value = RSub(proceeds, position.value)
              /\ sig'.asked_entry
              /\ IF position'.in_pos
                 THEN /\ position'.entry_time = t.exit_time
                      /\ position'.entry_price = price
                      /\ position'.value = proceeds
                      /\ position'.qty = RDiv(proceeds, R(price))
                      /\ cash' = RZero
                 ELSE position' = FlatPosition /\ cash' = proceeds
              /\ (sig'.entry /\ sig'.stop < price) => position'.in_pos
      ]_vars

\* C9 case: a position opened on the candle that closed the previous trade
C9_Witness ==
    /\ mode = "generic" /\ trades # <<>> /\ position.in_pos
    /\ position.entry_time = Last(trades).exit_time
    /\ position.value = RMul(Last(trades).qty, R(Last(trades).exit_price))

\* C10: in legacy mode, a bearish cross of the open position's slope pair at
\* candle i closes the trade as "Signal Cross" even when the price is below the
\* updated trailing stop; "Stop Loss" is recorded only without a bearish cross
\* and with price < stop.
C10_CrossBeforeStop ==
    [][ (mode = "legacy" /\ pc = "loop" /\ i' = i + 1 /\ position.in_pos
           /\ position.params # <<>>) =>
          LET price == PyIdx(close, i)
              fma == position.params[1]
              sma == position.params[2]
              prev == sig'.prev_slope
              cur == sig'.slope
              bearish == /\ NaN \notin {prev[fma], prev[sma], cur[fma], cur[sma]}
                         /\ prev[fma] > prev[sma]
                         /\ cur[fma] < cur[sma]
              closed == Len(trades') = Len(trades) + 1
          IN  /\ bearish => closed /\ Last(trades').exit_reason = "Signal Cross"
              /\ (closed /\ Last(trades').exit_reason = "Stop Loss") =>
                     ~bearish /\ price < Last(trades').stop
              /\ (~bearish /\ closed) => Last(trades').exit_reason = "Stop Loss"
      ]_vars

\* C10 case: a trade closed as "Signal Cross" at a price below its stop
C10_Witness ==
    /\ mode = "legacy" /\ trades # <<>>
    /\ Last(trades).exit_reason = "Signal Cross"
    /\ Last(trades).exit_price < Last(trades).stop

\* C11: while a position stays open its stop never decreases from one candle
\* to the next. Legacy mode: the stop becomes price - atr x mult only when
\* price - entry > atr x mult x TRAIL_TRIGGER_MULT and that value is above the
\* current stop, and is unchanged when atr is NaN. Generic mode: the stop
\* becomes the maximum of the old stop and the strategy's line.
C11_StopNeverDecreases ==
    [][ (pc = "loop" /\ i' = i + 1 /\ position.in_pos /\ position'.in_pos
           /\ trades' = trades) =>
          LET price == PyIdx(close, i)
          IN  IF mode = "legacy"
              THEN LET atr_val == sig'.atr
                       mult == position.params[4]
                       raised == /\ atr_val # NaN
                                 /\ price - position.entry
                                      > atr_val * mult * TRAIL_TRIGGER_MULT
                                 /\ price - atr_val * mult > position.stop
                   IN  /\ position'.stop >= position.stop
                       /\ position'.stop = (IF raised THEN price - atr_val * mult
                                            ELSE position.stop)
                       /\ position'.entry = position.entry
              ELSE /\ position'.stop_price >= position.stop_price
                   /\ position'.stop_price
                        = (IF sig'.line = NIL \/ sig'.line <= position.stop_price
                           THEN position.stop_price ELSE sig'.line)
                   /\ position'.entry_price = position.entry_price
      ]_vars

\* C11 case: an open position whose strategy offered a line below its stop on
\* the last candle
C11_Witness ==
    /\ mode = "generic" /\ Simulated /\ position.in_pos
    /\ position.entry_time < i - 1
    /\ sig.line # NIL /\ sig.line < position.stop_price


\* C12: get_entry_signal returns the first memory tuple, in rank order (highest
\* score first), whose fast and slow slope lines cross bullishly with all four
\* values defined; only when no memory tuple qualifies does it return an
\* exploratory tuple of the grid, and only when the exploration draw succeeds;
\* otherwise it returns no entry.
Qualifies(m, prev, cur) ==
    /\ prev[m[1]] # NaN /\ prev[m[2]] # NaN /\ cur[m[1]] # NaN /\ cur[m[2]] # NaN
    /\ prev[m[1]] < prev[m[2]]
    /\ cur[m[1]] > cur[m[2]]

C12_FirstQualifyingElseExplore ==
    (pc = "return" /\ call.fn = "get_entry_signal") =>
        LET memory == call.memory
            hits == {k \in 1..Len(memory) : Qualifies(memory[k], call.prev, call.cur)}
        IN  /\ \A a, b \in 1..Len(memory) : a < b => memory[a][5] >= memory[b][5]
            /\ IF hits # {}
               THEN LET k == CHOOSE h \in hits : \A g \in hits : h <= g
                    IN  ret = SubSeq(memory[k], 1, 4)
               ELSE IF call.explore
                    THEN ret \in {ParamGrid[k] : k \in 1..Len(ParamGrid)}
                    ELSE ret = <<>>

C12_Witness ==
    /\ pc = "return" /\ call.fn = "get_entry_signal"
    /\ Len(call.memory) = 2
    /\ call.memory[1][5] > call.memory[2][5]
    /\ Qualifies(call.memory[1], call.prev, call.cur)
    /\ Qualifies(call.memory[2], call.prev, call.cur)
    /\ call.explore /\ ParamGrid[call.pick] # SubSeq(call.memory[1], 1, 4)
    /\ ret = SubSeq(call.memory[1], 1, 4)
\* C13: the score of a tuple is gross_profit / gross_loss when gross_loss > 0,
\* one and the same constant for every tuple with gross_loss 0 and positive
\* gross_profit, and 0 otherwise.
Scored == pc = "return" /\ call.fn = "_score_params_numba"
LossFree(r) == r.gl = RZero /\ RLt(RZero, r.gp)

C13_ScoreRatioConstantOrZero ==
    Scored =>
        /\ \A k \in 1..Len(ret) :
              /\ RLt(RZero, ret[k].gl) => ret[k].score = RDiv(ret[k].gp, ret[k].gl)
              /\ (~RLt(RZero, ret[k].gl) /\ ~RLt(RZero, ret[k].gp)) => ret[k].score = RZero
        /\ \A k, l \in 1..Len(ret) :
              (LossFree(ret[k]) /\ LossFree(ret[l])) => ret[k].score = ret[l].score
\* C14: the reported Profit Factor is +infinity if and only if the trade list
\* has at least one winning trade (pnl_value > 0) and no losing trade; with both
\* winning and losing trades it is finite.
C14_InfiniteIffWinsAndNoLosses ==
    (pc = "return" /\ call.fn = "calculate_stats") =>
        LET pnl == call.pnl_values
            won == \E k \in 1..Len(pnl) : pnl[k] > 0
            lost == \E k \in 1..Len(pnl) : pnl[k] < 0
        IN  /\ ret.profit_factor.inf <=> (won /\ ~lost)
            /\ (won /\ lost) => ~ret.profit_factor.inf
\* C16: every indicator array has the length of the candle series and is
\* not-a-number exactly before its warmup: window-1 positions for SMA, EMA and
\* slope, window positions for RSI and ATR, and for the chained indicators
\* (slope_p over sma_p, the MACD signal over the MACD line) the combined warmup
\* of the two stages.
NaNExactlyBefore(arr, warmup, n) ==
    /\ Len(arr) = n
    /\ \A j \in 1..n : QIsNaN(arr[j]) <=> j <= warmup

C16_WarmupPrefixes ==
    (pc = "return" /\ call.fn = "get_indicators") =>
        LET n == Len(call.df.close)
            w == call.p
        IN  /\ NaNExactlyBefore(ret.sma, w - 1, n)
            /\ NaNExactlyBefore(ret.ema, w - 1, n)
            /\ NaNExactlyBefore(ret.rsi, w, n)
            /\ NaNExactlyBefore(ret.atr, w, n)
            /\ NaNExactlyBefore(ret.slope, (w - 1) + (w - 1), n)
            /\ NaNExactlyBefore(ret.signal,
                   (call.macd.slow_period - 1) + (call.macd.signal_period - 1), n)
\* C15: for every directional strategy and every candle, if an indicator value
\* the entry decision reads (at the candle or the one before) is not-a-number,
\* the Supertrend direction of a not-a-number Supertrend line included, the
\* entry signal is false; and if a value the exit decision reads is
\* not-a-number, the exit signal gives no reason.
EntryReads(name, ind, t) ==
    CASE name = "RSI_Reversion" -> {PyIdx(ind.rsi, t)}
      [] name = "Trend_Filter_RSI_Entry" ->
            {PyIdx(ind.sma, t), PyIdx(ind.rsi, t), PyIdx(ind.rsi, t - 1)}
      [] name = "RSI_Stoch_Combo_TP" -> {PyIdx(ind.rsi, t), PyIdx(ind.stoch_k, t)}
      [] name = "EMACross" ->
            {PyIdx(ind.ema_fast, t), PyIdx(ind.ema_slow, t),
             PyIdx(ind.ema_fast, t - 1), PyIdx(ind.ema_slow, t - 1)}
      [] name = "Supertrend_Follower" -> {PyIdx(ind.st_line, t), PyIdx(ind.st_line, t - 1)}
ExitReads(name, ind, t) ==
    CASE name = "RSI_Reversion" -> {PyIdx(ind.rsi, t)}
      [] name = "Trend_Filter_RSI_Entry" -> {PyIdx(ind.rsi, t)}
      [] name = "RSI_Stoch_Combo_TP" -> {}
      [] name = "EMACross" -> {PyIdx(ind.ema_fast, t), PyIdx(ind.ema_slow, t)}
      [] name = "Supertrend_Follower" -> {PyIdx(ind.st_line, t)}

C15_NaNSuppressesSignals ==
    (pc = "return" /\ call.fn = "signals") =>
        \A t \in 1..Len(ret.entry_signal) :
            /\ (\E v \in EntryReads(call.strategy, ret.ind, t) : QIsNaN(v))
                  => ~ret.entry_signal[t]
            /\ (\E v \in ExitReads(call.strategy, ret.ind, t) : QIsNaN(v))
                  => ret.exit_signal[t] = None
\* C17: the aggregated curve holds, at every timestamp t of the union of the
\* curves' indices, N x C plus the sum over the curves of (v_k(t) - C), v_k(t)
\* being curve k's last value at or before t, and 0 for a curve with no value
\* yet; two curves from C to C+1 and from C to C-1, the second a day shorter,
\* start and end at 2 x C.
LastValueDelta(curve, t, c) ==
    LET seen == {u \in DOMAIN curve : u <= t}
    IN  IF seen = {} THEN 0
        ELSE curve[CHOOSE u \in seen : \A x \in seen : x <= u] - c

C17_SumOfForwardFilledDeltas ==
    (pc = "return" /\ call.fn = "_aggregate_curves") =>
        LET curves == call.series_list
            n == Len(curves)
            days == UNION {DOMAIN curves[k] : k \in 1..n}
        IN  /\ {ret.index[j] : j \in 1..Len(ret.index)} = days
            /\ Len(ret.index) = Cardinality(days)
            /\ Len(ret.values) = Len(ret.index)
            /\ \A j \in 1..Len(ret.index) :
                  ret.values[j] =
                      n * PerTestCapital
                      + SumSeq([k \in 1..n |->
                                   LastValueDelta(curves[k], ret.index[j], PerTestCapital)])

C17_Witness ==
    /\ pc = "return" /\ call.fn = "_aggregate_curves"
    /\ call.series_list = <<(1 :> 10 @@ 2 :> 10 @@ 3 :> 11), (1 :> 10 @@ 2 :> 9)>>
    /\ ret.index = <<1, 2, 3>>
    /\ ret.values = <<20, 19, 20>>
\* C18: with max_grids 4 and capital 1000, on a price that keeps oscillating
\* between two fixed bounds across two grid levels, every full oscillation
\* appends exactly 2 trades, all "Grid Pair Closed" and all of the same
\* pnl_value (stated at the end of each of the first MaxCycles oscillations).
C18_TwoTradesPerOscillation ==
    (pc = "oscillate" /\ ret.leg = 0) =>
        /\ Len(trades) = 2 * ret.cycles
        /\ \A k \in 1..Len(trades) :
              /\ trades[k].exit_reason = "Grid Pair Closed"
              /\ trades[k].pnl_value = trades[1].pnl_value

\* The run of SpecStrategyRun is on a series whose closes are all equal
FlatRun == \A j \in DOMAIN call.df.close : call.df.close[j] = call.df.close[1]
RsiStrategies == {"RSI_Reversion", "Trend_Filter_RSI_Entry", "RSI_Stoch_Combo_TP"}

\* C19: on a series whose closes are all equal, each RSI-based strategy run in
\* generic mode opens no position and records no trade, every point of the
\* equity curve is the initial capital, and the stats returned have zero
\* trades, the initial capital as final capital and Sharpe ratio 0.
C19_FlatSeriesNoTrades ==
    (call.strategy \in RsiStrategies /\ FlatRun) =>
        /\ trades = <<>> /\ ~position.in_pos
        /\ \A k \in DOMAIN equity_curve : equity_curve[k].equity = Q(cfg.capital)
        /\ pc = "done" =>
              /\ ret.total_trades = 0
              /\ ret.final_capital = Q(cfg.capital)
              /\ ret.sharpe = [kind |-> "zero"]
\* A finished RSI_Reversion run from index 0 over a flat series whose candles
\* have a range, so that RSI and ATR are defined on the later candles
C19_Witness ==
    /\ pc = "done" /\ call.strategy = "RSI_Reversion" /\ FlatRun
    /\ call.start_index = 0 /\ call.df.high # call.df.close
    /\ PyIdx(call.indicators.rsi, -1) = Q(100)
    /\ ~QIsNaN(PyIdx(call.indicators.atr, -1))
    /\ Len(equity_curve) = SeriesLen

\* The run of SpecStrategyRun is on strictly increasing closes
RisingRun ==
    \A j \in 1..(Len(call.df.close) - 1) : RLt(call.df.close[j], call.df.close[j + 1])
PositionsOpened == Len(trades) + (IF position.in_pos THEN 1 ELSE 0)

\* C20 as stated: the EMA-cross strategy run in generic mode on a strictly
\* increasing close series opens exactly one position over the whole run and
\* records zero "Stop Loss" exits.
C20_OneEntryNoStopLoss ==
    (pc = "done" /\ call.strategy = "EMACross" /\ RisingRun) =>
        PositionsOpened = 1 /\ ret.stop_losses = 0
\* C20: the EMA-cross strategy run in generic mode on a strictly increasing
\* close series opens no position at all: the fast EMA is above the slow EMA at
\* every index where both are defined, so the crossover never happens; the run
\* records zero trades and zero "Stop Loss" exits.
C20_NoEntryOnRisingSeries ==
    (call.strategy = "EMACross" /\ RisingRun) =>
        /\ PositionsOpened = 0
        /\ \A t \in 0..(Len(close) - 1) :
              ~QLt(PyIdx(call.indicators.ema_fast, t), PyIdx(call.indicators.ema_slow, t))
        /\ pc = "done" => ret.total_trades = 0 /\ ret.stop_losses = 0
\* A finished EMACross run over rising closes whose loop covered candles at
\* which both EMAs are defined, at that candle and the one before
C20_Witness ==
    /\ pc = "done" /\ call.strategy = "EMACross" /\ RisingRun
    /\ call.start_index = 1
    /\ \A t \in 2..(SeriesLen - 1) :
          QGt(PyIdx(call.indicators.ema_fast, t), PyIdx(call.indicators.ema_slow, t))
    /\ ~QIsNaN(PyIdx(call.indicators.atr, -1))

\* The two runs are legacy runs of the batch of SpecBatch
LegacyResults == {r \in DOMAIN ret.all_individual_results :
                     ret.all_individual_results[r].strategy_name = LegacyName}

\* C21: two legacy runs of one batch (one config, one seed) on identical candle
\* series produce identical trades and equity curve, whichever runs were
\* executed before them in the batch.
C21_RunDependsOnlyOnItsInputs ==
    \A a, b \in LegacyResults :
        LET ra == ret.all_individual_results[a]
            rb == ret.all_individual_results[b]
        IN  call.symbols[ra.symbol] = call.symbols[rb.symbol] =>
                ra.trades = rb.trades /\ ra.equity_curve = rb.equity_curve

\* The (symbol, strategy item) runs of the batch that do not raise
SoundRuns ==
    {q \in (1..Len(call.symbols)) \X (1..Len(call.STRATEGIES)) :
        /\ ~call.STRATEGIES[q[2]].raises
        /\ call.STRATEGIES[q[2]].name \in StrategyNames}
Reported(q) ==
    \E r \in DOMAIN outcome.individual_tests :
        /\ outcome.individual_tests[r].symbol = q[1]
        /\ outcome.individual_tests[r].item = q[2]

\* C22: when a (symbol, strategy) run of a batch raises an unexpected
\* exception, every other run of the batch, the remaining strategies of the
\* same symbol included, is still executed and reported; the results collected
\* before are not altered.
C22_FailureIsolatedToOneRun ==
    pc = "done" => \A q \in SoundRuns : q \in ret.ran /\ Reported(q)

\* The last part of C22 on its own: once collected, a result stays as it was
\* collected, whatever later runs do
C22_ResultsKept ==
    [][\A r \in DOMAIN ret.all_individual_results :
          /\ r \in DOMAIN ret.all_individual_results'
          /\ ret.all_individual_results'[r] = ret.all_individual_results[r]]_vars

\* The items of config["STRATEGIES"] whose name is not in STRATEGY_MAPPING
UnknownItems == {b \in DOMAIN call.STRATEGIES : call.STRATEGIES[b].name \notin StrategyNames}

\* C23: when the configuration names a strategy that is not in
\* STRATEGY_MAPPING, the caller of the run receives an error instead of a
\* normal result, and no candle is simulated for that strategy.
C23_UnknownStrategyReported ==
    (pc = "done" /\ UnknownItems # {}) =>
        /\ outcome.kind = "error"
        /\ \A q \in ret.ran : q[2] \notin UnknownItems
\* The second part of C23 on its own: no run is made for an unknown strategy
C23_NoCandleSimulated == \A q \in ret.ran : q[2] \notin UnknownItems

\* The state the buy loop of the current candle started from, the buy levels
\* the candle's low reached, and the capital slice
BeforeLoop == ret.before
AfterBuys == pc = "sells"
TouchedBuys == {level \in BeforeLoop.buys : RLe(sig.low, level)}
Slice == quote_qty_per_grid(cfg)
\* The n highest levels of a ladder
Highest(S, n) == {level \in S : Cardinality({x \in S : RLt(level, x)}) < n}
\* The n lowest levels of a ladder
Lowest(S, n) == {level \in S : Cardinality({x \in S : RLt(x, level)}) < n}
\* The base quantity one slice buys at each level of S, summed
RECURSIVE BaseBought(_)
BaseBought(S) ==
    IF S = {} THEN R(0)
    ELSE LET x == CHOOSE y \in S : TRUE
         IN  RAdd(RDiv(Slice, x), BaseBought(S \ {x}))
\* The number of touched buy levels the cash before the loop pays for
BuysAfforded ==
    CHOOSE n \in 0..Cardinality(TouchedBuys) :
        /\ RLe(RMul(R(n), Slice), BeforeLoop.cash)
        /\ (n < Cardinality(TouchedBuys) =>
                RLt(BeforeLoop.cash, RMul(R(n + 1), Slice)))
BoughtLevels == Highest(TouchedBuys, BuysAfforded)

\* C24 as stated: after the buy loop of a candle every buy level at or above
\* the candle low has been filled: cash is down by one slice per level, the
\* base quantity is up by slice / level, the level has left the buy ladder,
\* its sell level at level x factor is on the sell ladder, and a buy ladder in
\* which a level remained has one new level for each filled one.
C24_EveryTouchedBuyFilled ==
    AfterBuys =>
        /\ cash = RSub(BeforeLoop.cash, RMul(R(Cardinality(TouchedBuys)), Slice))
        /\ base_asset_qty = RAdd(BeforeLoop.base, BaseBought(TouchedBuys))
        /\ TouchedBuys \cap buy_orders = {}
        /\ \A level \in TouchedBuys : RMul(level, grid_spacing_factor(cfg)) \in sell_orders
        /\ (Cardinality(BeforeLoop.buys) >= 2 =>
                Cardinality(buy_orders) = Cardinality(BeforeLoop.buys))

\* C24 amended: the buy levels at or above the candle low are taken from the
\* highest down, and a level is filled while the cash covers one slice; each
\* fill takes one slice of cash, adds slice / level of base, removes the level,
\* adds the sell level at level x factor and, when a buy level remains, one
\* new buy level one factor below the lowest one. Levels that are not filled
\* stay on the buy ladder.
C24_AffordedBuysFilled ==
    AfterBuys =>
        LET f == grid_spacing_factor(cfg)
            lowest == RMin(BeforeLoop.buys)
            replenished == IF Cardinality(BeforeLoop.buys) >= 2
                           THEN {RDiv(lowest, RPow(f, n)) : n \in 1..BuysAfforded}
                           ELSE {}
        IN  /\ cash = RSub(BeforeLoop.cash, RMul(R(BuysAfforded), Slice))
            /\ base_asset_qty = RAdd(BeforeLoop.base, BaseBought(BoughtLevels))
            /\ buy_orders = (BeforeLoop.buys \ BoughtLevels) \cup replenished
            /\ sell_orders = BeforeLoop.sells \cup {RMul(level, f) : level \in BoughtLevels}
            /\ trades = BeforeLoop.trades

\* A buy loop that filled a level, replenished the ladder and had to leave a
\* touched level for lack of cash
C24_Witness ==
    /\ AfterBuys
    /\ BuysAfforded >= 1 /\ BuysAfforded < Cardinality(TouchedBuys)
    /\ Cardinality(BeforeLoop.buys) >= 2
    /\ cash # BeforeLoop.cash

\* The sell loop of a candle has just run; BeforeLoop is the state it started
\* from. The sell levels the candle's high reached, the trades the loop
\* appended and the levels they sold at.
AfterSells == pc = "buys" /\ i > 1
TouchedSells == {level \in BeforeLoop.sells : RLe(level, sig.high)}
LoopTrades == SubSeq(trades, Len(BeforeLoop.trades) + 1, Len(trades))
SoldLevels == {LoopTrades[n].exit_price : n \in DOMAIN LoopTrades}
\* The base quantity one slice was bought for at the buy level paired with each
\* level of S, summed
RECURSIVE BaseSold(_)
BaseSold(S) ==
    IF S = {} THEN R(0)
    ELSE LET x == CHOOSE y \in S : TRUE
         IN  RAdd(RDiv(Slice, RDiv(x, grid_spacing_factor(cfg))), BaseSold(S \ {x}))
\* Each trade of the loop closes one grid pair: sold at a touched level L,
\* bought at L / factor, with pnl_value = slice x (factor - 1); the trades are
\* in ascending order of L
PairsClosed ==
    LET f == grid_spacing_factor(cfg)
    IN  /\ \A n \in DOMAIN LoopTrades :
              /\ LoopTrades[n].exit_reason = "Grid Pair Closed"
              /\ LoopTrades[n].exit_price \in TouchedSells
              /\ LoopTrades[n].entry_price = RDiv(LoopTrades[n].exit_price, f)
              /\ LoopTrades[n].pnl_value = RMul(Slice, RSub(f, R(1)))
              /\ RLt(R(0), LoopTrades[n].pnl_value)
        /\ \A n \in 1..(Len(LoopTrades) - 1) :
              RLt(LoopTrades[n].exit_price, LoopTrades[n + 1].exit_price)
        /\ SubSeq(trades, 1, Len(BeforeLoop.trades)) = BeforeLoop.trades

\* C25 as stated: after the sell loop of a candle every sell level at or below
\* the candle high has been filled, in ascending order, each with exactly one
\* "Grid Pair Closed" trade with entry_price L / factor, exit_price L and
\* pnl_value = slice x (factor - 1); each L has a buy level at L / factor, and a
\* sell ladder in which a level remained has one new level for each filled one.
C25_EveryTouchedSellFilled ==
    AfterSells =>
        /\ PairsClosed
        /\ SoldLevels = TouchedSells
        /\ \A level \in TouchedSells : RDiv(level, grid_spacing_factor(cfg)) \in buy_orders
        /\ (Cardinality(BeforeLoop.sells) >= 2 =>
                Cardinality(sell_orders) = Cardinality(BeforeLoop.sells))

\* C25 amended: the sell levels at or below the candle high are taken in
\* ascending order and a level L is filled when the base quantity held at its
\* turn is at least slice / (L / factor); each fill appends exactly one "Grid
\* Pair Closed" trade with entry_price L / factor, exit_price L and pnl_value =
\* slice x (factor - 1), adds a buy level at L / factor, takes L off the sell
\* ladder and, when a sell level remains, adds one new sell level one factor
\* above the highest one. Levels that are not filled stay on the sell ladder.
C25_AffordedSellsFilled ==
    AfterSells =>
        LET f == grid_spacing_factor(cfg)
            unsold == BeforeLoop.sells \ SoldLevels
            BaseAt(level) ==
                RSub(BeforeLoop.base, BaseSold({x \in SoldLevels : RLt(x, level)}))
        IN  /\ PairsClosed
            /\ \A level \in TouchedSells :
                  level \in SoldLevels <=> RLe(BaseSold({level}), BaseAt(level))
            /\ cash = RAdd(BeforeLoop.cash,
                           RMul(R(Cardinality(SoldLevels)), RMul(Slice, f)))
            /\ base_asset_qty = RSub(BeforeLoop.base, BaseSold(SoldLevels))
            /\ buy_orders = BeforeLoop.buys \cup {RDiv(level, f) : level \in SoldLevels}
            /\ unsold \subseteq sell_orders
            /\ \A x \in sell_orders \ unsold : \A level \in unsold : RLt(level, x)
            /\ IF Cardinality(BeforeLoop.sells) >= 2
               THEN /\ Cardinality(sell_orders) = Cardinality(BeforeLoop.sells)
                    /\ SoldLevels # {} =>
                          RMax(sell_orders) = RMul(RMax(sell_orders \ {RMax(sell_orders)}), f)
               ELSE sell_orders = unsold

\* A sell loop that filled a level above one it had to leave for lack of base
\* asset, and replenished the ladder
C25_Witness ==
    /\ AfterSells
    /\ \E low_level \in TouchedSells \ SoldLevels :
          \E level \in SoldLevels : RLt(low_level, level)
    /\ Cardinality(BeforeLoop.sells) >= 2

\* The slice the run's initial capital gives: the initial_capital that
\* run_continuous_backtest passes to init_continuous_backtest, over max_grids
RunSlice == RDiv(R(cfg.capital), R(cfg.max_grids))

\* C26: the capital slice of every grid fill is the run's initial capital
\* divided by max_grid_count: a buy loop takes a whole number of such slices
\* from the cash, and every closed pair earns such a slice x (factor - 1).
C26_SliceOfRunCapital ==
    /\ AfterBuys =>
          \E n \in 0..Cardinality(TouchedBuys) :
              cash = RSub(BeforeLoop.cash, RMul(R(n), RunSlice))
    /\ AfterSells =>
          \A n \in DOMAIN LoopTrades :
              LoopTrades[n].pnl_value =
                  RMul(RunSlice, RSub(grid_spacing_factor(cfg), R(1)))

\* A candle of the legacy loop is processed in this step
LegacyCandle == mode = "legacy" /\ pc = "loop" /\ i' = i + 1
\* The candles on which the loop optimizes: the first simulated one and every
\* REOPTIMIZE_EVERY-th after it
OnSchedule(t) == \E n \in 0..MaxLen : t = start_index + n * REOPTIMIZE_EVERY

\* C27: the legacy loop calls optimize on candle i exactly when i is the first
\* simulated candle or a whole number of REOPTIMIZE_EVERY candles after it;
\* the entry decision of that candle already reads the refreshed memory; on
\* every other candle the memory is left as it was.
C27_OptimizeOnSchedule ==
    [][LegacyCandle =>
          /\ sig'.optimized <=> OnSchedule(i)
          /\ ~OnSchedule(i) => best_params_memory' = best_params_memory
          /\ (sig'.asked_entry
                /\ LearnedEntry(best_params_memory', sig'.prev_slope, sig'.slope) # <<>>) =>
                sig'.entry_params =
                    LearnedEntry(best_params_memory', sig'.prev_slope, sig'.slope)]_vars

\* The candle REOPTIMIZE_EVERY candles after the first one of a run: the
\* second reoptimization has run and the entry was taken from the memory
C27_Witness ==
    /\ mode = "legacy" /\ pc = "loop" /\ start_index # NIL
    /\ i = start_index + REOPTIMIZE_EVERY + 1
    /\ sig.optimized
    /\ sig.asked_entry /\ sig.entry_params # <<>>
    /\ sig.entry_params = LearnedEntry(best_params_memory, sig.prev_slope, sig.slope)

\* optimize has run in SpecOptimize
Memorised == call.fn = "optimize" /\ pc \in {"optimized", "return"}
\* The score optimize stored with a memory tuple
MemoryScore(m) == m[5]

\* C28: after every optimize call the memory is ordered by non-increasing
\* score and holds at most TOP_PARAM_MEMORY tuples, whatever TOP_PARAM_MEMORY
\* and CONFIDENCE_THRESHOLD are configured.
C28_MemoryRankedAndBounded ==
    Memorised =>
        /\ Len(best_params_memory) <= call.top_n
        /\ \A a, b \in DOMAIN best_params_memory :
              a < b => MemoryScore(best_params_memory[a]) >= MemoryScore(best_params_memory[b])

\* No tuple of the grid reaches the configured threshold
NoneConfident == \A j \in DOMAIN call.scores : call.scores[j] < call.threshold
\* get_entry_signal returned the parameters of a memory tuple
LearnedFromMemory ==
    \E k \in DOMAIN best_params_memory :
        ret = SubSeq(best_params_memory[k], 1, 4)

\* C29 as stated: after every optimize call every tuple of the memory scores
\* at least CONFIDENCE_THRESHOLD, and the tuple get_entry_signal returns as a
\* learned entry scores at least CONFIDENCE_THRESHOLD.
C29_MemoryAboveThreshold ==
    Memorised =>
        /\ \A k \in DOMAIN best_params_memory :
              MemoryScore(best_params_memory[k]) >= call.threshold
        /\ (pc = "return" /\ ret # <<>>) =>
              \E j \in DOMAIN ParamGrid :
                  ParamGrid[j] = ret /\ call.scores[j] >= call.threshold

\* C29 amended: after every optimize call every tuple of the memory scores at
\* least CONFIDENCE_THRESHOLD, unless no tuple of the grid does: the memory
\* then holds the single best-scoring tuple. A learned entry always comes
\* from the memory.
C29_ThresholdOrFallback ==
    Memorised =>
        /\ IF NoneConfident
           THEN /\ Len(best_params_memory) = 1
                /\ \E j \in DOMAIN ParamGrid :
                      /\ best_params_memory[1] = MemoryEntry(j, call.scores)
                      /\ \A n \in DOMAIN ParamGrid : call.scores[n] <= call.scores[j]
           ELSE \A k \in DOMAIN best_params_memory :
                    MemoryScore(best_params_memory[k]) >= call.threshold
        /\ (pc = "return" /\ ret # <<>>) => LearnedFromMemory

\* A learned entry after an optimize call that had room for both tuples of
\* the grid and kept out the one below the threshold
C29_Witness ==
    /\ Memorised /\ pc = "return" /\ ret # <<>>
    /\ call.top_n = Len(ParamGrid)
    /\ ~NoneConfident
    /\ \E j \in DOMAIN ParamGrid : call.scores[j] < call.threshold
    /\ Len(best_params_memory) = 1

\* What scoring the window one tuple at a time gives
SequentialScores ==
    score_params(call.rows, call.close, 0, WindowEnd, TRAIL_TRIGGER_MULT)

\* C30: whatever the interleaving of the tuple evaluations, the scores the
\* parallel loop returns are, tuple by tuple, the scores of the tuples
\* evaluated one at a time.
C30_ParallelEqualsSequential ==
    pc = "return" =>
        \A k \in DOMAIN ParamGrid : ret.scores[k] = SequentialScores[k].score

\* Two tuples evaluated with their steps interleaved, with different scores
\* above zero
C30_Witness ==
    /\ pc = "return"
    /\ ret.mixed
    /\ RLt(RZero, ret.scores[1]) /\ RLt(RZero, ret.scores[2])
    /\ ret.scores[1] # ret.scores[2]

\* The least-squares slope of the window y[1..n] regressed on x = 0..n-1, with
\* every sum computed from the window: (n Sxy - Sx Sy) / (n Sxx - Sx Sx)
RECURSIVE OlsSy(_, _)
OlsSy(y, n) == IF n = 0 THEN R(0) ELSE RAdd(OlsSy(y, n - 1), y[n])
RECURSIVE OlsSxy(_, _)
OlsSxy(y, n) == IF n = 0 THEN R(0) ELSE RAdd(OlsSxy(y, n - 1), RMul(R(n - 1), y[n]))
RECURSIVE OlsSx(_)
OlsSx(n) == IF n = 0 THEN 0 ELSE OlsSx(n - 1) + (n - 1)
RECURSIVE OlsSxx(_)
OlsSxx(n) == IF n = 0 THEN 0 ELSE OlsSxx(n - 1) + (n - 1) * (n - 1)
OlsSlope(y) ==
    LET n == Len(y)
    IN  RDiv(RSub(RMul(R(n), OlsSxy(y, n)), RMul(R(OlsSx(n)), OlsSy(y, n))),
             R(n * OlsSxx(n) - OlsSx(n) * OlsSx(n)))

\* C31: on an array without not-a-number values and a window w >= 2, the
\* output of _rolling_slope_numba at every index t >= w-1 is the least-squares
\* slope of arr[t-w+1..t] on x = 0..w-1 computed from the window alone.
C31_SlopeIsLeastSquares ==
    (pc = "return" /\ call.fn = "_rolling_slope_numba") =>
        \A t \in (call.w - 1)..(Len(call.arr) - 1) :
            PyIdx(ret, t) = OlsSlope(SubSeq(call.arr, t - call.w + 2, t + 1))

\* A window of 2 moved three times over values that rise and fall
C31_Witness ==
    /\ pc = "return" /\ call.fn = "_rolling_slope_numba"
    /\ call.w = 2 /\ Len(call.arr) >= call.w + 3
    /\ RLt(R(0), PyIdx(ret, 1)) /\ RLt(PyIdx(ret, Len(call.arr) - 1), R(0))

\* A generic or legacy run is simulating or has finished its candles
DirectionalRun ==
    /\ mode \in {"generic", "legacy"} /\ start_index # NIL
    /\ pc = "loop" \/ (pc = "done" /\ outcome.kind = "ok")
\* The pnl_value of the first n logged trades, summed
RECURSIVE PnlSum(_)
PnlSum(n) == IF n = 0 THEN RZero ELSE RAdd(PnlSum(n - 1), trades[n].pnl_value)

\* C32: in generic and legacy modes every logged trade has pnl_value = qty x
\* exit_price - value, its value is the cash the run held when it entered
\* (initial capital plus the pnl_value of the trades before it), and whenever
\* the simulator is flat cash is the initial capital plus the pnl_value of all
\* logged trades.
C32_CashIsCapitalPlusPnl ==
    DirectionalRun =>
        /\ \A n \in DOMAIN trades :
              /\ trades[n].pnl_value =
                     RSub(RMul(trades[n].qty, R(trades[n].exit_price)), trades[n].value)
              /\ trades[n].value = RAdd(R(cfg.capital), PnlSum(n - 1))
        /\ ~position.in_pos => cash = RAdd(R(cfg.capital), PnlSum(Len(trades)))

\* Flat after two trades that changed the cash
C32_Witness ==
    /\ DirectionalRun /\ mode = "generic" /\ ~position.in_pos
    /\ Len(trades) >= 2
    /\ trades[1].pnl_value # RZero /\ trades[2].pnl_value # RZero
    /\ cash # R(cfg.capital)

\* The touched buy levels the buy loop left in place, and the touched sell
\* levels the sell loop left in place
SkippedBuys == TouchedBuys \cap buy_orders
SkippedSells == TouchedSells \ SoldLevels
LoopChangedNothing ==
    /\ cash = BeforeLoop.cash /\ base_asset_qty = BeforeLoop.base
    /\ trades = BeforeLoop.trades
    /\ buy_orders = BeforeLoop.buys /\ sell_orders = BeforeLoop.sells

\* C33: in grid mode cash and base_asset_qty are never negative; the buy loop
\* pays one slice per level it takes off the buy ladder and leaves every other
\* touched level on it, the sell loop leaves every touched level it did not
\* sell on the sell ladder, and a loop that only skipped changed nothing.
C33_FundsNeverNegative ==
    /\ RLe(RZero, cash) /\ RLe(RZero, base_asset_qty)
    /\ AfterBuys =>
          /\ cash = RSub(BeforeLoop.cash,
                         RMul(R(Cardinality(TouchedBuys \ SkippedBuys)), Slice))
          /\ trades = BeforeLoop.trades
          /\ SkippedBuys = TouchedBuys => LoopChangedNothing
    /\ AfterSells =>
          /\ SkippedSells \subseteq sell_orders
          /\ Len(trades) = Len(BeforeLoop.trades) + Cardinality(TouchedSells \ SkippedSells)
          /\ SoldLevels = {} => LoopChangedNothing

\* A candle whose sell loop skipped a level for lack of base asset, after a
\* buy loop that ended with a buy level at or above the low and less than one
\* slice of cash
C33_Witness ==
    /\ AfterSells /\ SkippedSells # {}
    /\ \E level \in BeforeLoop.buys : RLe(sig.low, level) /\ RLt(BeforeLoop.cash, Slice)

\* x < y for positive fractions: by their integer parts, then by the rest
Below(x, y) ==
    LET fx == x[1] \div x[2]
        fy == y[1] \div y[2]
    IN  IF fx # fy THEN fx < fy
        ELSE RLt(<<x[1] % x[2], x[2]>>, <<y[1] % y[2], y[2]>>)

\* C34: in grid mode, after init and after every processed candle, every buy
\* level is strictly below every sell level (so no price is on both ladders).
C34_BuysBelowSells ==
    pc = "buys" =>
        \A b \in buy_orders : \A level \in sell_orders : Below(b, level)

\* ------------------------------------------------------------------------
\* Two runs on series with a common prefix
\* ------------------------------------------------------------------------
\* The frame d with its last candle closing at v, the candle's spread kept
TailChanged(d, v) ==
    LET n == Len(d.close)
        up == QSub(d.high[n], d.close[n])
    IN  [close |-> [d.close EXCEPT ![n] = Q(v)],
         high |-> [d.high EXCEPT ![n] = QAdd(Q(v), up)],
         low |-> [d.low EXCEPT ![n] = QSub(Q(v), up)]]

\* The grid, and the strategy classes whose entry signal reads index i-1
Runners == {"Grid", "Trend_Filter_RSI_Entry", "EMACross", "Supertrend_Follower"}

\* A runner called on two frames of n candles with wicks that agree on the
\* candles 0..n-2 and differ in the last close, from a start index within the
\* prefix. frames[1] is the first frame, frames[2] the second; indicators[k]
\* are the strategy's indicators of frames[k] (a grid asks for none).
PrefixCalls(n) ==
    {[fn |-> "run", strategy |-> q.strategy,
      frames |-> <<q.df, TailChanged(q.df, q.other_last)>>,
      start_index |-> q.start_index, agree |-> n - 2,
      indicators |-> [k \in 1..2 |->
                        LET d == IF k = 1 THEN q.df ELSE TailChanged(q.df, q.other_last)
                        IN  IF q.strategy = "Grid" THEN [close |-> d.close]
                            ELSE StrategyIndicators(d, StrategyParams)]] :
        q \in {r \in [strategy : Runners, df : Candles(n), other_last : ClosePrices,
                      start_index : 0..(n - 2)] :
                  Last(r.df.close) # Q(r.other_last) /\ Last(r.df.high) # Last(r.df.close)}}

IntCloses(d) == [j \in DOMAIN d.close |-> d.close[j][1]]

\* The state a run keeps: cash, position or ladder, trades, equity written
RunState ==
    [cash |-> cash, position |-> position, base |-> base_asset_qty,
     buys |-> buy_orders, sells |-> sell_orders, trades |-> trades,
     equity_curve |-> equity_curve]

\* The grid's part of a run's state, and a run's state with that part replaced
GridOf(st) ==
    [cash |-> st.cash, base |-> st.base, buys |-> st.buys, sells |-> st.sells,
     trades |-> st.trades, equity_curve |-> st.equity_curve]
WithGrid(st, g) ==
    [st EXCEPT !.cash = g.cash, !.base = g.base, !.buys = g.buys, !.sells = g.sells,
               !.trades = g.trades, !.equity_curve = g.equity_curve]

\* run_generic_backtest lines 108-113: the state of a run before its first
\* candle
GenericInit(c) ==
    [cash |-> Q(c.capital), position |-> FlatPosition, base |-> RZero,
     buys |-> {}, sells |-> {}, trades |-> <<>>, equity_curve |-> <<>>]

\* Both runs before their first candle, run_generic_backtest lines 101-113 or
\* run_continuous_backtest lines 170-175
RunInit(name, frames, start, c) ==
    [k \in 1..2 |->
        IF name = "Grid"
        THEN WithGrid(GenericInit(c), GridInit(c.capital, start, IntCloses(frames[k]), c))
        ELSE GenericInit(c)]

\* The variables hold the run on frames[1], ret the run on frames[2]
InitPrefix ==
    /\ call \in PrefixCalls(SeriesLen)
    /\ pc = "loop" /\ entry = "direct"
    /\ mode = (IF call.strategy = "Grid" THEN "grid" ELSE "generic")
    /\ cfg = [warmup |-> 0, capital |-> 12, yfinance |-> FALSE,
              spacing_pct |-> 50, max_grids |-> 2, grid_capital |-> 12]
    /\ close = IntCloses(call.frames[1])
    /\ available_warmup = NIL /\ requested_start_idx = call.start_index
    /\ start_index = call.start_index /\ i = call.start_index
    /\ sig = NoSig /\ best_params_memory = <<>> /\ outcome = NoOutcome
    /\ \E runs \in {RunInit(call.strategy, call.frames, call.start_index, cfg)} :
        /\ cash = runs[1].cash /\ position = runs[1].position
        /\ base_asset_qty = runs[1].base
        /\ buy_orders = runs[1].buys /\ sell_orders = runs[1].sells
        /\ trades = runs[1].trades /\ equity_curve = runs[1].equity_curve
        /\ ret = runs[2]

\* The two runs move on to the states runs[1] and runs[2]
PrefixMove(runs) ==
    /\ cash' = runs[1].cash /\ position' = runs[1].position
    /\ base_asset_qty' = runs[1].base
    /\ buy_orders' = runs[1].buys /\ sell_orders' = runs[1].sells
    /\ trades' = runs[1].trades /\ equity_curve' = runs[1].equity_curve
    /\ ret' = runs[2]
    /\ i' = i + 1
    /\ UNCHANGED <<pc, entry, mode, cfg, close, available_warmup, requested_start_idx,
                   start_index, sig, best_params_memory, outcome, call>>

\* Candle i of both runs of a strategy class, while i lies in the common
\* prefix: the loop body of run_generic_backtest
PrefixStrategyStep ==
    /\ pc = "loop" /\ mode = "generic" /\ i <= call.agree
    /\ LET before == <<RunState, ret>>
       IN  \E runs \in {[k \in 1..2 |->
                LET r == StrategyCandle(call.strategy, call.indicators[k], StrategyParams,
                                        i, before[k].cash, before[k].position,
                                        before[k].trades)
                IN  [before[k] EXCEPT
                        !.cash = r.cash, !.position = r.position, !.trades = r.trades,
                        !.equity_curve = Append(@, [ts |-> i,
                                                    equity |-> r.current_value])]]} :
            PrefixMove(runs)

\* Candle i of both grid runs, while i lies in the common prefix:
\* run_continuous_backtest lines 177-178
PrefixGridStep ==
    /\ pc = "loop" /\ mode = "grid" /\ i <= call.agree
    /\ LET before == <<RunState, ret>>
       IN  \E runs \in {[k \in 1..2 |->
                WithGrid(before[k],
                         process_candle(GridOf(before[k]), i,
                                        PyIdx(call.frames[k].low, i),
                                        PyIdx(call.frames[k].high, i),
                                        PyIdx(IntCloses(call.frames[k]), i), cfg))]} :
            PrefixMove(runs)

SpecPrefix == InitPrefix /\ [][PrefixStrategyStep \/ PrefixGridStep]_vars

\* C35: no look-ahead. Two runs on series that agree on the candles 0..i hold
\* the same cash, position or ladder, trades and equity after each candle up
\* to i, in generic and in grid mode, from every start index the runners
\* accept.
C35_NoLookAhead == ret = RunState

\* The same for runs that start at index 1 or later
C35_NoLookAheadFromOne == start_index >= 1 => ret = RunState

\* ------------------------------------------------------------------------
\* optimize: the window handed to the scorer
\* ------------------------------------------------------------------------
\* cfg['OPTIMIZATION_LOOKBACK'], scaled to frames of LookbackFrame candles
LookbackFrame == 3
OptimizationLookbacks == {1, 3}
CrossRows == {r \in ScoreRows : r.atr # NaN}

\* optimize lines 68-76: the scores of the window [t - lookback, t)
optimize_scores(rows, closes, t, lookback) ==
    score_params(rows, closes, t - lookback, t, TRAIL_TRIGGER_MULT)

\* optimize called at candle `candle` on a frame, and on the frame whose last
\* candle closes at another price: the two frames agree on every candle
\* before the last one
SameScores(x, y) == \A k \in DOMAIN x : x[k].score = y[k].score

LookbackCalls(n) ==
    {q \in [fn : {"optimize"}, rows : [1..n -> CrossRows],
            close : [1..n -> ClosePrices], other_last : ClosePrices,
            candle : 0..(n - 1), lookback : OptimizationLookbacks] :
        q.other_last # q.close[n]}

EvalLookback ==
    /\ call.fn = "optimize"
    /\ Return([scores |-> optimize_scores(call.rows, call.close, call.candle, call.lookback),
               other |-> optimize_scores(call.rows,
                                         [call.close EXCEPT ![Len(call.close)] = call.other_last],
                                         call.candle, call.lookback)])

SpecLookback == InitCall(LookbackCalls(LookbackFrame)) /\ [][EvalLookback]_vars

\* C36: a reoptimization at candle i scores only candles of [i - lookback, i)
\* that lie in the frame before i: the scores do not change with a candle at
\* or after i, also when the lookback is longer than the history before i.
C36_ScoresOnlyBefore ==
    pc = "return" => SameScores(ret.scores, ret.other)

\* The same for reoptimizations with at least `lookback` candles before them
C36_ScoresOnlyBeforeWithHistory ==
    pc = "return" /\ call.candle >= call.lookback => SameScores(ret.scores, ret.other)

\* ------------------------------------------------------------------------
\* The stats record against the returned equity curve
\* ------------------------------------------------------------------------
\* C37: for a run with a non-empty equity curve, "Final Capital" is the last
\* value of the returned equity curve and "Total Return %" is that value's
\* gain over the initial capital in percent, also when the trade log is empty
\* because the position is still open at the end of the data.
C37_StatsAgreeWithEquity ==
    pc = "done" /\ equity_curve # <<>> =>
        /\ ret.final_capital = Last(equity_curve).equity
        /\ ret.total_return_pct = total_return_pct(Last(equity_curve).equity, cfg.capital)

\* The same for runs that closed a trade
C37_StatsAgreeAfterTrades ==
    pc = "done" /\ equity_curve # <<>> /\ trades # <<>> =>
        /\ ret.final_capital = Last(equity_curve).equity
        /\ ret.total_return_pct = total_return_pct(Last(equity_curve).equity, cfg.capital)

\* ------------------------------------------------------------------------
\* The API's job store: start_backtest, run_backtest_task, get_backtest_status
\* ------------------------------------------------------------------------
\* Job ids (req.scenario_name) and the number of requests served in a run
JobIds == {"a", "b"}
MaxRequests == 4

\* app.state.job_results = {}: no entry for any job id
NoJob == [status |-> "absent", report |-> "None"]
NoResponse == [req |-> "none", job |-> "none", code |-> 0, status |-> "none"]
NoPending == [job |-> "none"]

\* What run_batch_backtest does inside the task: it returns the path of the
\* report it wrote, returns "" (no symbols, or no run produced a result), or
\* raises DataValidationError or another exception
BatchResults == {"report", "no report", "DataValidationError", "Exception"}

\* start_backtest line 758 with the check left out
start_refused_never(store, j) == FALSE
\* start_backtest line 758: a job id whose stored status is 'running'
start_refused(store, j) == store[j].status = "running"

\* run_backtest_task lines 481-502 storing 'completed' whatever path came back
task_entry_without_report_check(result) ==
    IF result \in {"report", "no report"}
    THEN [status |-> "completed", report |-> IF result = "report" THEN "data" ELSE "None"]
    ELSE [status |-> "failed", report |-> result]
\* run_backtest_task lines 481-502: the entry stored for the batch's result
task_entry(result) ==
    CASE result = "report" -> [status |-> "completed", report |-> "data"]
      [] result = "no report" -> [status |-> "failed", report |-> "FileNotFoundError"]
      [] result = "DataValidationError" ->
            [status |-> "failed", report |-> "Insufficient Historical Data"]
      [] OTHER -> [status |-> "failed", report |-> "Exception"]

\* get_backtest_status lines 797-812
status_response(store, disk, j) ==
    IF store[j].status = "absent"
    THEN IF j \in disk
         THEN [req |-> "status", job |-> j, code |-> 200, status |-> "completed"]
         ELSE [req |-> "status", job |-> j, code |-> 404, status |-> "none"]
    ELSE [req |-> "status", job |-> j, code |-> 200, status |-> store[j].status]

\* The server after start-up. ret.store is app.state.job_results, ret.tasks the
\* background tasks added and not yet finished, ret.disk the job ids with a
\* report file, ret.pending the start request that passed line 758 and has
\* not reached line 790.
InitJobs ==
    /\ pc = "api" /\ NoRun /\ call = [fn |-> "api"]
    /\ \E disk \in SUBSET JobIds :
        ret = [store |-> [j \in JobIds |-> NoJob], tasks |-> {}, disk |-> disk,
               pending |-> NoPending, requests |-> 0, response |-> NoResponse]

JobsUnchanged ==
    UNCHANGED <<pc, entry, mode, cfg, close, available_warmup, requested_start_idx,
                start_index, i, cash, position, trades, equity_curve, sig,
                buy_orders, sell_orders, base_asset_qty, best_params_memory,
                outcome, call>>

\* start_backtest lines 755-788: the request is refused with 409 when the job
\* is running, with 404 when the screener config it names is missing;
\* otherwise it goes on to line 790. No other request is served in between:
\* the handler is a coroutine without an await.
StartRequest ==
    /\ pc = "api" /\ ret.pending = NoPending /\ ret.requests < MaxRequests
    /\ \E j \in JobIds, config_found \in BOOLEAN :
        ret' = IF start_refused(ret.store, j)
               THEN [ret EXCEPT !.requests = @ + 1,
                                !.response = [req |-> "start", job |-> j, code |-> 409,
                                              status |-> "none"]]
               ELSE IF ~config_found
               THEN [ret EXCEPT !.requests = @ + 1,
                                !.response = [req |-> "start", job |-> j, code |-> 404,
                                              status |-> "none"]]
               ELSE [ret EXCEPT !.pending = [job |-> j]]
    /\ JobsUnchanged

\* start_backtest lines 790-793: the entry is set to 'running', the task is
\* added and 202 is answered
StartAccept ==
    /\ pc = "api" /\ ret.pending # NoPending
    /\ LET j == ret.pending.job
       IN  ret' = [ret EXCEPT !.store[j] = [status |-> "running", report |-> "None"],
                              !.tasks = @ \cup {[job |-> j, serial |-> ret.requests,
                                                 at |-> "added", result |-> "none"]},
                              !.pending = NoPending,
                              !.requests = @ + 1,
                              !.response = [req |-> "start", job |-> j, code |-> 202,
                                            status |-> "running"]]
    /\ JobsUnchanged

\* get_backtest_status
GetStatus ==
    /\ pc = "api" /\ ret.pending = NoPending /\ ret.requests < MaxRequests
    /\ \E j \in JobIds :
        ret' = [ret EXCEPT !.requests = @ + 1,
                           !.response = status_response(ret.store, ret.disk, j)]
    /\ JobsUnchanged

\* run_backtest_task line 482: an added task runs the batch in a worker
\* thread; a batch that returns a path has written the report file
TaskBatch ==
    /\ pc = "api"
    /\ \E t \in ret.tasks, result \in BatchResults :
        /\ t.at = "added"
        /\ ret' = [ret EXCEPT !.tasks = (@ \ {t}) \cup {[t EXCEPT !.at = "ran",
                                                                  !.result = result]},
                              !.disk = IF result = "report" THEN @ \cup {t.job} ELSE @]
    /\ JobsUnchanged

\* run_backtest_task lines 484-502: the task stores its entry and ends
TaskStore ==
    /\ pc = "api"
    /\ \E t \in ret.tasks :
        /\ t.at = "ran"
        /\ ret' = [ret EXCEPT !.store[t.job] = task_entry(t.result),
                              !.tasks = @ \ {t}]
    /\ JobsUnchanged

NextJobs == StartRequest \/ StartAccept \/ GetStatus \/ TaskBatch \/ TaskStore

SpecJobs == InitJobs /\ [][NextJobs]_vars

\* Starlette runs every added background task once the response is sent, and
\* the batch's loops run over finite lists: an added task runs its batch and
\* a task whose batch ended stores its entry.
SpecJobsFair == SpecJobs /\ WF_vars(TaskBatch) /\ WF_vars(TaskStore)

TasksOf(j) == {t \in ret.tasks : t.job = j}

\* A step that answers a start request for job j
StartAnswered(j) ==
    /\ ret'.requests = ret.requests + 1
    /\ ret'.response.req = "start" /\ ret'.response.job = j

\* C38: under every interleaving of start requests and task steps a job id has
\* at most one background task, and a start request for a job id whose stored
\* status is 'running' is answered 409, adds no task and leaves the job store
\* as it was.
C38_OneTaskPerJob ==
    /\ [](\A j \in JobIds : Cardinality(TasksOf(j)) <= 1)
    /\ [][\A j \in JobIds :
            ret.store[j].status = "running" /\ ret.pending = NoPending /\ StartAnswered(j)
                => /\ ret'.response.code = 409
                   /\ ret'.tasks = ret.tasks
                   /\ ret'.store = ret.store]_vars

\* A start request for a job with a task under way was answered 409
C38_Witness ==
    /\ pc = "api"
    /\ ret.response.req = "start" /\ ret.response.code = 409
    /\ Cardinality(TasksOf(ret.response.job)) = 1

\* A step in which task t ends
TaskEnds(t) == t \in ret.tasks /\ t.at = "ran" /\ t \notin ret'.tasks

\* C39: every accepted job, stored as 'running', is eventually stored as
\* 'completed' or as 'failed'; a 'completed' entry carries the report and a
\* 'failed' entry an error, whatever the batch raised; and a task whose batch
\* yielded no report stores 'failed', never 'completed'.
C39_JobsEndCompletedOrFailed ==
    /\ \A j \in JobIds :
        (ret.store[j].status = "running")
            ~> (ret.store[j].status \in {"completed", "failed"})
    /\ [](\A j \in JobIds :
            /\ ret.store[j].status = "completed" => ret.store[j].report = "data"
            /\ ret.store[j].status = "failed" =>
                   ret.store[j].report \in {"FileNotFoundError",
                                            "Insufficient Historical Data", "Exception"})
    /\ [][\A t \in ret.tasks :
            TaskEnds(t) /\ t.result # "report" => ret'.store[t.job].status = "failed"]_vars

\* A job whose batch yielded no report is stored as failed, with no task left
C39_Witness ==
    /\ pc = "api"
    /\ \E j \in JobIds :
        /\ ret.store[j] = [status |-> "failed", report |-> "FileNotFoundError"]
        /\ TasksOf(j) = {}

====
